---- MODULE Spec2Model ----
(***************************************************************************)
(* Model of the value-formatting layer of fluent-bundle:                   *)
(*   - FluentNumber::as_string (types/number.rs), its decimal shaping and  *)
(*     its thread-local FixedDecimalFormatter cache,                       *)
(*   - FluentDateTime::as_string (types/datetime.rs), Formatter::new and   *)
(*     its thread-local formatter cache,                                   *)
(*   - plural_category (types/plural.rs) and its thread-local rule cache,  *)
(*   - the bundle built by new_concurrent (concurrent.rs), its function    *)
(*     table and the builtins NUMBER and DATETIME,                         *)
(*   - the resolver's scope, the fallback chain of bundles and locale      *)
(*     negotiation with MockLikelySubtags::maximize (likely_subtags.rs).   *)
(* Text is a sequence of one-character strings.  The fixed_decimal and     *)
(* icu calls the source makes are modelled by what they do to the decimal  *)
(* (digits, magnitude, upper/lower magnitude).                             *)
(***************************************************************************)
EXTENDS Integers, Sequences, FiniteSets, TLC

VARIABLES
    numFormatters,  \* number.rs FORMATTERS: thread -> locale -> grouping -> formatter
    dtFormatters,   \* datetime.rs FORMATTERS: thread -> locale -> style key -> formatter
    plurals,        \* plural.rs PLURALS: thread -> locale -> (ordinal, cardinal)
    built,          \* ghost: thread -> sequence of cache keys, one per formatter construction
    panicked,       \* thread -> TRUE once a call on it has panicked
    last,           \* the last call: its input and what it returned
    firstText,      \* ghost: the text each request returned the first time it was made
    calls,          \* number of calls made so far
    pc,             \* position of the single-call specifications
    entries,        \* the bundle's function table: name -> function
    scope,          \* the resolver's scope while a pattern is resolved
    chain           \* the fallback chain: the bundles and the request in progress

vars == <<numFormatters, dtFormatters, plurals, built, panicked, last, firstText, calls, pc,
          entries, scope, chain>>

----------------------------------------------------------------------------
(* Bounds of the model *)

\* Execution contexts (threads), each with its own thread_local caches.
NumThreads == 2

\* Calls made in one behaviour of the cache specification.
MaxCalls == 3

\* Largest digit-count option value drawn for a number.
MaxDigits == 3

----------------------------------------------------------------------------
(* Generic helpers *)

Max(a, b) == IF a >= b THEN a ELSE b

Min(a, b) == IF a <= b THEN a ELSE b

RECURSIVE Pow10(_)
Pow10(n) == IF n <= 0 THEN 1 ELSE 10 * Pow10(n - 1)

Zeros(n) == [i \in 1..n |-> 0]

\* Option<T>: None is <<>>, Some(x) is <<x>>.
None == <<>>

Some(x) == <<x>>

UnwrapOr(o, d) == IF o = <<>> THEN d ELSE o[1]

DigitChars == <<"0", "1", "2", "3", "4", "5", "6", "7", "8", "9">>

DigitChar(d) == DigitChars[d + 1]

DigitCharSet == {DigitChars[i] : i \in 1..10}

DigitValue(c) == (CHOOSE i \in 1..10 : DigitChars[i] = c) - 1

\* Decimal digits of a natural number, most significant first (0 gives <<>>).
RECURSIVE NatDigits(_)
NatDigits(n) == IF n = 0 THEN <<>> ELSE Append(NatDigits(n \div 10), n % 10)

\* The natural number a digit sequence denotes.
RECURSIVE DigitsNat(_)
DigitsNat(ds) ==
    IF ds = <<>> THEN 0
    ELSE 10 * DigitsNat(SubSeq(ds, 1, Len(ds) - 1)) + ds[Len(ds)]

RECURSIVE StripLeadingZeros(_)
StripLeadingZeros(ds) ==
    IF ds # <<>> /\ ds[1] = 0 THEN StripLeadingZeros(Tail(ds)) ELSE ds

RECURSIVE StripTrailingZeros(_)
StripTrailingZeros(ds) ==
    IF ds # <<>> /\ ds[Len(ds)] = 0
    THEN StripTrailingZeros(SubSeq(ds, 1, Len(ds) - 1))
    ELSE ds

----------------------------------------------------------------------------
(* 64-bit floating values.  A finite value is identified by its shortest   *)
(* round-trip decimal: mant * 10^exp with mant not a multiple of 10        *)
(* (mant = 0, exp = 0 for zero); class is "finite", "nan" or "inf".        *)

F64(neg, mant, exp) == [class |-> "finite", negative |-> neg, mant |-> mant, exp |-> exp]

F64NaN == [class |-> "nan", negative |-> FALSE, mant |-> 0, exp |-> 0]

F64Inf(neg) == [class |-> "inf", negative |-> neg, mant |-> 0, exp |-> 0]

\* f64's Display (value.to_string()): plain positional decimal, never an
\* exponent; "NaN", "inf", "-inf" for the non-finite values.
F64ToString(v) ==
    LET sign == IF v.negative THEN <<"-">> ELSE <<>>
        ds   == [i \in 1..Len(NatDigits(v.mant)) |-> DigitChar(NatDigits(v.mant)[i])]
        n    == Len(ds)
        k    == 0 - v.exp
    IN  CASE v.class = "nan" -> <<"N", "a", "N">>
          [] v.class = "inf" -> sign \o <<"i", "n", "f">>
          [] v.mant = 0      -> sign \o <<"0">>
          [] v.exp >= 0      -> sign \o ds \o [i \in 1..v.exp |-> "0"]
          [] n > k           -> sign \o SubSeq(ds, 1, n - k) \o <<".">> \o SubSeq(ds, n - k + 1, n)
          [] OTHER           -> sign \o <<"0", ".">> \o [i \in 1..(k - n) |-> "0"] \o ds

----------------------------------------------------------------------------
(* fixed_decimal::FixedDecimal: sign, significant digits (no leading or    *)
(* trailing zero), magnitude of the first digit, and the magnitudes up to  *)
(* and down to which zeros are shown.                                      *)

FixedDecimalZero ==
    [negative |-> FALSE, digits |-> <<>>, magnitude |-> 0,
     upper_magnitude |-> 0, lower_magnitude |-> 0]

IsZero(d) == d.digits = <<>>

NonzeroMagnitudeStart(d) == d.magnitude

NonzeroMagnitudeEnd(d) ==
    IF IsZero(d) THEN 0 ELSE d.magnitude - (Len(d.digits) - 1)

DigitAt(d, m) ==
    IF m > d.magnitude \/ m < d.magnitude - Len(d.digits) + 1
    THEN 0
    ELSE d.digits[d.magnitude - m + 1]

\* FixedDecimal::from_str on the text of an f64: optional sign, digits, at
\* most one point; anything else is a syntax error.
FixedDecimalFromStr(s) ==
    LET signed == Len(s) > 0 /\ s[1] \in {"-", "+"}
        neg    == Len(s) > 0 /\ s[1] = "-"
        body   == IF signed THEN Tail(s) ELSE s
        dots   == {i \in 1..Len(body) : body[i] = "."}
        ok     == /\ Len(body) > 0
                  /\ Cardinality(dots) <= 1
                  /\ \A i \in 1..Len(body) : body[i] \in DigitCharSet \cup {"."}
                  /\ \E i \in 1..Len(body) : body[i] \in DigitCharSet
        dot    == IF dots = {} THEN Len(body) + 1 ELSE CHOOSE i \in dots : TRUE
        int    == [i \in 1..(dot - 1) |-> DigitValue(body[i])]
        frac   == [i \in 1..(Len(body) - Min(dot, Len(body))) |-> DigitValue(body[dot + i])]
        all    == int \o frac
        lead   == Len(all) - Len(StripLeadingZeros(all))
        sig    == StripTrailingZeros(StripLeadingZeros(all))
    IN  IF ~ok THEN [ok |-> FALSE, value |-> FixedDecimalZero]
        ELSE [ok |-> TRUE,
              value |-> [negative |-> neg,
                         digits |-> sig,
                         magnitude |-> IF sig = <<>> THEN 0 ELSE Len(int) - 1 - lead,
                         upper_magnitude |-> Max(Len(int) - 1, 0),
                         lower_magnitude |-> 0 - Len(frac)]]

\* FixedDecimal::from(i16) for a non-negative integer.
FixedDecimalFromNat(n) ==
    LET ds  == NatDigits(n)
        sig == StripTrailingZeros(ds)
    IN  [negative |-> FALSE, digits |-> sig,
         magnitude |-> IF ds = <<>> THEN 0 ELSE Len(ds) - 1,
         upper_magnitude |-> IF ds = <<>> THEN 0 ELSE Len(ds) - 1,
         lower_magnitude |-> 0]

MultiplyPow10(d, delta) ==
    LET shifted ==
            CASE delta > 0 -> [d EXCEPT !.upper_magnitude = d.upper_magnitude + delta,
                                        !.lower_magnitude = Min(0, d.lower_magnitude + delta)]
              [] delta < 0 -> [d EXCEPT !.lower_magnitude = d.lower_magnitude + delta,
                                        !.upper_magnitude = Max(0, d.upper_magnitude + delta)]
              [] OTHER     -> d
    IN  IF IsZero(d) THEN shifted ELSE [shifted EXCEPT !.magnitude = d.magnitude + delta]

TrimStart(d) == [d EXCEPT !.upper_magnitude = Max(0, NonzeroMagnitudeStart(d))]

TrimEnd(d) == [d EXCEPT !.lower_magnitude = Min(0, NonzeroMagnitudeEnd(d))]

\* Mutant of PadStart: no zero is added on the left.
PadStartSkip(d, position) == d

PadStart(d, position) ==
    IF position <= 0 THEN d
    ELSE [d EXCEPT !.upper_magnitude = Max(position - 1, d.magnitude)]

PadEnd(d, position) ==
    IF position > 0 THEN d
    ELSE [d EXCEPT !.lower_magnitude = Min(position, NonzeroMagnitudeEnd(d))]

----------------------------------------------------------------------------
(* Rounding of a FixedDecimal at a position (the magnitude of the last     *)
(* digit kept; -n keeps n fraction digits).                                *)

\* i16 value of a usize cast with `as i16` (two's complement truncation).
AsI16(n) ==
    LET low == n % 65536
    IN  IF low >= 32768 THEN low - 65536 ELSE low

\* trunc: toward zero.  Zeros are shown down to the position.
Trunc(d, position) ==
    LET keep == d.magnitude - (position - 1)
        kept == IF position - 1 <= d.magnitude
                THEN StripTrailingZeros(SubSeq(d.digits, 1, Min(keep, Len(d.digits))))
                ELSE <<>>
    IN  [d EXCEPT !.lower_magnitude = Min(position, 0),
                  !.upper_magnitude = Max(d.upper_magnitude, position - 1),
                  !.digits = kept,
                  !.magnitude = IF kept = <<>> THEN 0 ELSE d.magnitude]

\* Add one unit of 10^position to the absolute value of a truncated decimal.
IncrementAbsByOne(t, position) ==
    LET units == DigitsNat(t.digits \o Zeros(NonzeroMagnitudeEnd(t) - position)) + 1
        ds    == NatDigits(units)
        mag   == position + Len(ds) - 1
    IN  [t EXCEPT !.digits = StripTrailingZeros(ds),
                  !.magnitude = mag,
                  !.upper_magnitude = Max(t.upper_magnitude, mag)]

\* expand: away from zero.
Expand(d, position) ==
    LET t == Trunc(d, position)
    IN  IF IsZero(d) \/ position <= NonzeroMagnitudeEnd(d) THEN t
        ELSE IF position <= d.magnitude THEN IncrementAbsByOne(t, position)
        ELSE [t EXCEPT !.digits = <<1>>,
                       !.magnitude = position,
                       !.upper_magnitude = Max(t.upper_magnitude, position)]

Ceil(d, position) == IF d.negative THEN Trunc(d, position) ELSE Expand(d, position)

Floor(d, position) == IF d.negative THEN Expand(d, position) ELSE Trunc(d, position)

HalfTrunc(d, position) ==
    LET next == DigitAt(d, position - 1)
    IN  IF next > 5 \/ (next = 5 /\ NonzeroMagnitudeEnd(d) < position - 1)
        THEN Expand(d, position)
        ELSE Trunc(d, position)

HalfExpand(d, position) ==
    IF DigitAt(d, position - 1) >= 5 THEN Expand(d, position) ELSE Trunc(d, position)

HalfCeil(d, position) ==
    IF d.negative THEN HalfTrunc(d, position) ELSE HalfExpand(d, position)

HalfFloor(d, position) ==
    IF d.negative THEN HalfExpand(d, position) ELSE HalfTrunc(d, position)

HalfEven(d, position) ==
    LET next == DigitAt(d, position - 1)
    IN  IF \/ next > 5
           \/ next = 5 /\ NonzeroMagnitudeEnd(d) < position - 1
           \/ next = 5 /\ DigitAt(d, position) % 2 = 1
        THEN Expand(d, position)
        ELSE Trunc(d, position)

RoundingModes ==
    {"Ceil", "Floor", "Expand", "Trunc", "HalfCeil", "HalfFloor",
     "HalfExpand", "HalfTrunc", "HalfEven"}

\* Mutant of ApplyRounding: the configured mode is ignored.
ApplyRoundingHalfExpand(mode, d, position) == HalfExpand(d, position)

\* The match on options.rounding_mode in as_decimal and as_string_scientific.
ApplyRounding(mode, d, position) ==
    CASE mode = "Ceil"       -> Ceil(d, position)
      [] mode = "Floor"      -> Floor(d, position)
      [] mode = "Expand"     -> Expand(d, position)
      [] mode = "Trunc"      -> Trunc(d, position)
      [] mode = "HalfCeil"   -> HalfCeil(d, position)
      [] mode = "HalfFloor"  -> HalfFloor(d, position)
      [] mode = "HalfExpand" -> HalfExpand(d, position)
      [] mode = "HalfTrunc"  -> HalfTrunc(d, position)
      [] mode = "HalfEven"   -> HalfEven(d, position)

----------------------------------------------------------------------------
(* Number options (number.rs 15-223) *)

\* impl From<&str> for FluentNumberNotation
NotationFromStr(input) ==
    CASE input = "standard"    -> "Standard"
      [] input = "scientific"  -> "Scientific"
      [] input = "engineering" -> "Engineering"
      [] OTHER                 -> "Standard"

\* impl From<&str> for FluentNumberGrouping
GroupingFromStr(input) ==
    CASE input = "always" -> "Always"
      [] input = "auto"   -> "Auto"
      [] input = "min2"   -> "Min2"
      [] input = "never"  -> "Never"
      [] OTHER            -> "Auto"

\* impl From<&str> for FluentNumberRoundingMode
RoundingModeFromStr(input) ==
    CASE input = "ceil"       -> "Ceil"
      [] input = "floor"      -> "Floor"
      [] input = "expand"     -> "Expand"
      [] input = "trunc"      -> "Trunc"
      [] input = "halfCeil"   -> "HalfCeil"
      [] input = "halfFloor"  -> "HalfFloor"
      [] input = "halfExpand" -> "HalfExpand"
      [] input = "halfTrunc"  -> "HalfTrunc"
      [] input = "halfEven"   -> "HalfEven"
      [] OTHER                -> "HalfExpand"

\* #[derive(Default)] for FluentNumberOptions with the enums' default impls.
DefaultNumberOptions ==
    [style |-> "Decimal",
     notation |-> "Standard",
     currency |-> None,
     currency_display |-> "Symbol",
     use_grouping |-> "Auto",
     minimum_integer_digits |-> None,
     minimum_fraction_digits |-> None,
     maximum_fraction_digits |-> None,
     minimum_significant_digits |-> None,
     maximum_significant_digits |-> None,
     rounding_mode |-> "HalfExpand"]

\* usize::MAX as far as the model can hold it: the largest integer TLC
\* represents, which has all low 16 bits set as usize::MAX has.
UsizeMax == 2147483647

\* From<&FluentNumber> for usize: `input.value as usize`, a saturating cast
\* that truncates toward zero (NaN and negatives give 0).
F64AsUsize(v) ==
    CASE v.class = "nan" -> 0
      [] v.class = "inf" -> IF v.negative THEN 0 ELSE UsizeMax
      [] v.negative      -> 0
      [] v.exp >= 10     -> UsizeMax
      [] v.exp >= 0      -> IF v.mant > UsizeMax \div Pow10(v.exp) THEN UsizeMax
                            ELSE v.mant * Pow10(v.exp)
      [] OTHER           -> v.mant \div Pow10(0 - v.exp)

\* A named argument: a key with a String or a Number value.
StringArg(key, str) == [key |-> key, type |-> "String", str |-> str, num |-> F64(FALSE, 0, 0)]

NumberArg(key, v) == [key |-> key, type |-> "Number", str |-> "", num |-> v]

\* One arm of the match in FluentNumberOptions::merge.
NumberOptionsMergeOne(o, a) ==
    CASE a.key = "notation" /\ a.type = "String" ->
            [o EXCEPT !.notation = NotationFromStr(a.str)]
      [] a.key = "useGrouping" /\ a.type = "String" ->
            [o EXCEPT !.use_grouping = GroupingFromStr(a.str)]
      [] a.key = "roundingMode" /\ a.type = "String" ->
            [o EXCEPT !.rounding_mode = RoundingModeFromStr(a.str)]
      [] a.key = "minimumIntegerDigits" /\ a.type = "Number" ->
            [o EXCEPT !.minimum_integer_digits = Some(F64AsUsize(a.num))]
      [] a.key = "minimumFractionDigits" /\ a.type = "Number" ->
            [o EXCEPT !.minimum_fraction_digits = Some(F64AsUsize(a.num))]
      [] a.key = "maximumFractionDigits" /\ a.type = "Number" ->
            [o EXCEPT !.maximum_fraction_digits = Some(F64AsUsize(a.num))]
      [] a.key = "minimumSignificantDigits" /\ a.type = "Number" ->
            [o EXCEPT !.minimum_significant_digits = Some(F64AsUsize(a.num))]
      [] a.key = "maximumSignificantDigits" /\ a.type = "Number" ->
            [o EXCEPT !.maximum_significant_digits = Some(F64AsUsize(a.num))]
      [] a.key = "style" /\ a.type = "String" ->
            [o EXCEPT !.style = CASE a.str = "currency" -> "Currency"
                                  [] a.str = "percent"  -> "Percent"
                                  [] OTHER              -> "Decimal"]
      [] a.key = "currency" /\ a.type = "String" ->
            [o EXCEPT !.currency = Some(a.str)]
      [] a.key = "currencyDisplay" /\ a.type = "String" ->
            [o EXCEPT !.currency_display = CASE a.str = "code" -> "Code"
                                             [] a.str = "name" -> "Name"
                                             [] OTHER          -> "Symbol"]
      [] OTHER -> o

\* FluentNumberOptions::merge: the arguments are applied in order.
RECURSIVE NumberOptionsMerge(_, _)
NumberOptionsMerge(o, args) ==
    IF args = <<>> THEN o
    ELSE NumberOptionsMerge(NumberOptionsMergeOne(o, Head(args)), Tail(args))

\* FluentNumber::new
FluentNumber(value, options) == [value |-> value, options |-> options]

----------------------------------------------------------------------------
(* The decimal shaping of FluentNumber (number.rs 299-368) *)

\* as_decimal from the result of from_str on.  `ok` is FALSE when the
\* expect on that result panics.
ShapeDecimal(options, parsed) ==
    LET minimum_integer_digits  == UnwrapOr(options.minimum_integer_digits, 1)
        minimum_fraction_digits == UnwrapOr(options.minimum_fraction_digits, 0)
        maximum_fraction_digits ==
            AsI16(UnwrapOr(options.maximum_fraction_digits, Max(minimum_fraction_digits, 3)))
        f3     == PadStart(parsed.value, AsI16(minimum_integer_digits))
        f4     == ApplyRounding(options.rounding_mode, f3, 0 - maximum_fraction_digits)
    IN  IF ~parsed.ok THEN [ok |-> FALSE, value |-> FixedDecimalZero]
        ELSE [ok |-> TRUE,
              value |-> PadEnd(TrimEnd(f4), 0 - AsI16(minimum_fraction_digits))]

\* as_decimal
AsDecimal(n) == ShapeDecimal(n.options, FixedDecimalFromStr(F64ToString(n.value)))

\* Rust's i16 division: the quotient is truncated toward zero.
DivTrunc(a, b) ==
    IF a >= 0 THEN a \div b ELSE 0 - ((0 - a) \div b)

\* The part of as_string_scientific before the formatter is used, from the
\* result of from_str on: the mantissa, the magnitude and the padded decimal
\* of its absolute value.
ShapeScientific(options, multiple_of, parsed) ==
    LET magnitude == DivTrunc(NonzeroMagnitudeStart(parsed.value), multiple_of) * multiple_of
        shifted   == TrimEnd(TrimStart(MultiplyPow10(parsed.value, 0 - magnitude)))
        minimum_integer_digits  == UnwrapOr(options.minimum_integer_digits, 2)
        minimum_fraction_digits == UnwrapOr(options.minimum_fraction_digits, 3)
        maximum_fraction_digits ==
            AsI16(UnwrapOr(options.maximum_fraction_digits, Max(minimum_fraction_digits, 3)))
        rounded   == ApplyRounding(options.rounding_mode, shifted, 0 - maximum_fraction_digits)
        decimal   == PadEnd(TrimEnd(rounded), 0 - AsI16(minimum_fraction_digits))
        magnitude_decimal ==
            PadStart(FixedDecimalFromNat(IF magnitude < 0 THEN 0 - magnitude ELSE magnitude),
                     AsI16(minimum_integer_digits))
    IN  IF ~parsed.ok
        THEN [ok |-> FALSE, decimal |-> FixedDecimalZero, magnitude |-> 0,
              magnitude_decimal |-> FixedDecimalZero]
        ELSE [ok |-> TRUE, decimal |-> decimal, magnitude |-> magnitude,
              magnitude_decimal |-> magnitude_decimal]

ScientificParts(n, multiple_of) ==
    ShapeScientific(n.options, multiple_of, FixedDecimalFromStr(F64ToString(n.value)))

----------------------------------------------------------------------------
(* Formatters and their text *)

Locales == {"en", "pl"}

Groupings == {"Always", "Auto", "Min2", "Never"}

\* The decimal symbols and grouping sizes the locale data gives
\* FixedDecimalFormatter::try_new.
LocaleSymbols(locale) ==
    IF locale = "pl"
    THEN [decimal |-> ",", group |-> " ", minus |-> "-", primary |-> 3, min_grouping |-> 2]
    ELSE [decimal |-> ".", group |-> ",", minus |-> "-", primary |-> 3, min_grouping |-> 1]

\* A formatter instance.  `thread` and `serial` tell instances apart; the
\* other fields are what it was constructed from ("-" where not applicable).
NewFormatter(kind, thread, serial, locale, grouping, date, time, zone) ==
    [kind |-> kind, thread |-> thread, serial |-> serial, locale |-> locale,
     grouping |-> grouping, date |-> date, time |-> time, zone |-> zone]

NoFormatter == NewFormatter("None", 0, 0, "-", "-", "-", "-", "-")

\* Whether a grouping separator follows the digit at `magnitude`.
GrouperCheck(upper_magnitude, magnitude, strategy, sym) ==
    LET min_grouping == IF strategy = "Min2" THEN Max(2, sym.min_grouping)
                        ELSE Max(1, sym.min_grouping)
    IN  /\ strategy # "Never"
        /\ magnitude >= sym.primary
        /\ upper_magnitude >= sym.primary + min_grouping - 1
        /\ (magnitude - sym.primary) % sym.primary = 0

\* The digits of d from magnitude m down to its lower magnitude.
RECURSIVE FormatFrom(_, _, _)
FormatFrom(f, d, m) ==
    IF m < d.lower_magnitude THEN <<>>
    ELSE LET sym == LocaleSymbols(f.locale)
         IN  (IF m = -1 THEN <<sym.decimal>> ELSE <<>>)
             \o <<DigitChar(DigitAt(d, m))>>
             \o (IF GrouperCheck(d.upper_magnitude, m, f.grouping, sym)
                 THEN <<sym.group>> ELSE <<>>)
             \o FormatFrom(f, d, m - 1)

\* FixedDecimalFormatter::format(..).to_string()
Format(f, d) ==
    (IF d.negative THEN <<LocaleSymbols(f.locale).minus>> ELSE <<>>)
    \o FormatFrom(f, d, d.upper_magnitude)

----------------------------------------------------------------------------
(* The number formatter cache (number.rs 231-344) *)

Threads == 1..NumThreads

EmptyMap == [k \in {} |-> NoFormatter]

\* Number of formatters thread t has constructed for a cache key so far.
BuiltCount(t, key) == Cardinality({i \in DOMAIN built[t] : built[t][i] = key})

NumberKey(locale, grouping) == <<"decimal", locale, grouping>>

\* The match on options.use_grouping at the top of with_formatter.
GroupingStrategy(use_grouping) ==
    CASE use_grouping = "Always" -> "Always"
      [] use_grouping = "Auto"   -> "Auto"
      [] use_grouping = "Min2"   -> "Min2"
      [] use_grouping = "Never"  -> "Never"

\* with_formatter's lookup: whether FORMATTERS holds a formatter for the
\* locale and for options.use_grouping under it.
NumberCacheHit(cache, locale, use_grouping) ==
    locale \in DOMAIN cache /\ use_grouping \in DOMAIN cache[locale]

\* Mutant of WithFormatter: the lookup takes any formatter cached for the
\* locale, whatever its grouping.
WithFormatterAnyGrouping(cache, t, n, locale) ==
    LET use_grouping == n.options.use_grouping
        hit == locale \in DOMAIN cache /\ DOMAIN cache[locale] # {}
    IN  [hit |-> hit,
         formatter |->
            IF hit THEN cache[locale][CHOOSE g \in DOMAIN cache[locale] : TRUE]
            ELSE NewFormatter("Decimal", t,
                              BuiltCount(t, NumberKey(locale, use_grouping)) + 1,
                              locale, GroupingStrategy(use_grouping), "-", "-", "-")]

\* with_formatter up to the call of the closure: the cached formatter on a
\* hit, a newly constructed one otherwise.
WithFormatter(cache, t, n, locale) ==
    LET use_grouping == n.options.use_grouping
        hit == NumberCacheHit(cache, locale, use_grouping)
    IN  [hit |-> hit,
         formatter |->
            IF hit THEN cache[locale][use_grouping]
            ELSE NewFormatter("Decimal", t,
                              BuiltCount(t, NumberKey(locale, use_grouping)) + 1,
                              locale, GroupingStrategy(use_grouping), "-", "-", "-")]

\* with_formatter after the closure has returned: the new formatter is
\* inserted under the grouping, in the locale's map or in a new map.
NumberCacheInsert(cache, locale, use_grouping, formatter) ==
    IF locale \in DOMAIN cache
    THEN [cache EXCEPT ![locale] = (use_grouping :> formatter) @@ cache[locale]]
    ELSE (locale :> (use_grouping :> formatter)) @@ cache

\* formatter.format(&decimal).to_string() when the decimal could be built.
FormatDecimal(formatter, d) ==
    [ok |-> d.ok, text |-> IF d.ok THEN Format(formatter, d.value) ELSE <<>>]

\* The closure of as_string_standard.
StandardClosure(n, formatter) == FormatDecimal(formatter, AsDecimal(n))

\* The closure of as_string_scientific.
ScientificClosure(parts, formatter) ==
    [ok |-> TRUE,
     text |-> Format(formatter, parts.decimal)
              \o <<"E">>
              \o (IF parts.magnitude < 0 THEN <<"-">> ELSE <<"+">>)
              \o Format(formatter, parts.magnitude_decimal)]

\* Mutant of MultipleOf: Engineering is normalised like Scientific.
MultipleOfOne(notation) == 1

\* The multiple_of argument as_string passes for the notation.
MultipleOf(notation) == IF notation = "Engineering" THEN 3 ELSE 1

\* What as_string returns and leaves in the cache, given the formatter
\* with_formatter handed to the closure and what the closure returned.
NumberOutcome(cache, n, locale, wf, closure) ==
    IF ~closure.ok
    THEN [outcome |-> "panic", text |-> <<>>, formatter |-> wf.formatter,
          hit |-> wf.hit, constructed |-> ~wf.hit, cache |-> cache]
    ELSE [outcome |-> "text", text |-> closure.text, formatter |-> wf.formatter,
          hit |-> wf.hit, constructed |-> ~wf.hit,
          cache |-> IF wf.hit THEN cache
                    ELSE NumberCacheInsert(cache, locale, n.options.use_grouping,
                                           wf.formatter)]

\* as_string_standard: with_formatter runs first, the decimal is built
\* inside the closure.
AsStringStandard(cache, n, locale, wf) ==
    NumberOutcome(cache, n, locale, wf, StandardClosure(n, wf.formatter))

\* as_string_scientific: the decimals are built first (a panic there comes
\* before any formatter), then with_formatter runs.
AsStringScientific(cache, n, locale, parts, wf) ==
    IF ~parts.ok
    THEN [outcome |-> "panic", text |-> <<>>, formatter |-> NoFormatter,
          hit |-> FALSE, constructed |-> FALSE, cache |-> cache]
    ELSE NumberOutcome(cache, n, locale, wf, ScientificClosure(parts, wf.formatter))

\* FluentNumber::as_string on thread t: what it returns and what it does
\* to the thread's cache.  `constructed` tells whether try_new ran.
NumberAsString(cache, t, n, locale) ==
    IF n.options.notation = "Standard"
    THEN AsStringStandard(cache, n, locale, WithFormatter(cache, t, n, locale))
    ELSE AsStringScientific(cache, n, locale,
                            ScientificParts(n, MultipleOf(n.options.notation)),
                            WithFormatter(cache, t, n, locale))

----------------------------------------------------------------------------
(* Date and time (datetime.rs) *)

DateStyles == {"Full", "Long", "Medium", "Short", "Hidden"}

TimeStyles == {"Full", "Long", "Medium", "Short", "Hidden"}

\* FluentTimezoneStyle: Hidden, LocalizedGmt and the Iso8601 variants that
\* From<&str> builds (minutes Required, seconds Optional).
TimezoneStyles ==
    {"Hidden", "LocalizedGmt", "Iso8601Basic", "Iso8601Extended",
     "Iso8601UtcBasic", "Iso8601UtcExtended"}

\* Default for FluentDateTimeOptions
DefaultDateTimeOptions ==
    [date_style |-> "Medium", time_style |-> "Medium", timezone_style |-> "Hidden"]

FluentDateTime(value, options) == [value |-> value, options |-> options]

\* The three matches of as_string that turn a style into an Option of a
\* length (Hidden becomes None).
DateLength(date_style) == IF date_style = "Hidden" THEN None ELSE Some(date_style)

TimeLength(time_style) == IF time_style = "Hidden" THEN None ELSE Some(time_style)

ZoneFormat(timezone_style) ==
    IF timezone_style = "Hidden" THEN None ELSE Some(timezone_style)

\* Mutant of DowngradeTime: the time style is passed through.
DowngradeTimeKeep(time_style) == time_style

\* The match on the time style in the date+time and the time-only arms.
DowngradeTime(time_style) ==
    IF time_style \in {"Full", "Long", "Medium"} THEN "Medium" ELSE "Short"

\* Mutant of FormatterNew: the date+time+zone arm drops the zone and builds
\* the date+time formatter.
FormatterNewDropZone(t, serial, locale, date, time, zone) ==
    CASE date = None /\ time = None /\ zone = None -> None
      [] date # None /\ time = None /\ zone = None ->
            Some(NewFormatter("Date", t, serial, locale, "-", date[1], "-", "-"))
      [] date # None /\ time # None ->
            Some(NewFormatter("DateTime", t, serial, locale, "-",
                              date[1], DowngradeTime(time[1]), "-"))
      [] date = None /\ time # None /\ zone = None ->
            Some(NewFormatter("Time", t, serial, locale, "-", "-",
                              DowngradeTime(time[1]), "-"))
      [] date = None /\ time = None /\ zone # None ->
            Some(NewFormatter("TimeZone", t, serial, locale, "-", "-", "-", zone[1]))
      [] OTHER -> None

\* Formatter::new: None (<<>>) or Some(formatter).
FormatterNew(t, serial, locale, date, time, zone) ==
    CASE date = None /\ time = None /\ zone = None -> None
      [] date # None /\ time = None /\ zone = None ->
            Some(NewFormatter("Date", t, serial, locale, "-", date[1], "-", "-"))
      [] date # None /\ time # None /\ zone = None ->
            Some(NewFormatter("DateTime", t, serial, locale, "-",
                              date[1], DowngradeTime(time[1]), "-"))
      [] date # None /\ time # None /\ zone # None ->
            Some(NewFormatter("ZonedDateTime", t, serial, locale, "-",
                              date[1], time[1], zone[1]))
      [] date = None /\ time # None /\ zone = None ->
            Some(NewFormatter("Time", t, serial, locale, "-", "-",
                              DowngradeTime(time[1]), "-"))
      [] date = None /\ time = None /\ zone # None ->
            Some(NewFormatter("TimeZone", t, serial, locale, "-", "-", "-", zone[1]))
      [] OTHER -> None

\* Formatter::format_string: the text is decided by the formatter's kind,
\* its locale and the lengths it was constructed with, and by the instant.
FormatString(formatter, value) ==
    << <<formatter.kind, formatter.locale, formatter.date, formatter.time,
         formatter.zone, value>> >>

DateTimeStyleKey(options) ==
    <<options.date_style, options.time_style, options.timezone_style>>

DateTimeKey(locale, options) ==
    <<"datetime", locale, options.date_style, options.time_style, options.timezone_style>>

\* The lookup of FluentDateTime::as_string in FORMATTERS.
DateTimeCacheHit(cache, locale, options) ==
    locale \in DOMAIN cache /\ DateTimeStyleKey(options) \in DOMAIN cache[locale]

\* The two inserts of as_string: into the locale's map, or a new map.
DateTimeCacheInsert(cache, locale, options, formatter) ==
    IF locale \in DOMAIN cache
    THEN [cache EXCEPT ![locale] = (DateTimeStyleKey(options) :> formatter) @@ cache[locale]]
    ELSE (locale :> (DateTimeStyleKey(options) :> formatter)) @@ cache

\* FluentDateTime::as_string on thread t.  A None from Formatter::new is
\* unwrapped, which panics; nothing has been constructed then.
DateTimeAsString(cache, t, dt, locale) ==
    LET hit  == DateTimeCacheHit(cache, locale, dt.options)
        made == FormatterNew(t, BuiltCount(t, DateTimeKey(locale, dt.options)) + 1, locale,
                             DateLength(dt.options.date_style),
                             TimeLength(dt.options.time_style),
                             ZoneFormat(dt.options.timezone_style))
    IN  IF hit
        THEN [outcome |-> "text",
              text |-> FormatString(cache[locale][DateTimeStyleKey(dt.options)], dt.value),
              formatter |-> cache[locale][DateTimeStyleKey(dt.options)],
              hit |-> TRUE, constructed |-> FALSE, cache |-> cache]
        ELSE IF made = None
        THEN [outcome |-> "panic", text |-> <<>>, formatter |-> NoFormatter,
              hit |-> FALSE, constructed |-> FALSE, cache |-> cache]
        ELSE [outcome |-> "text", text |-> FormatString(made[1], dt.value),
              formatter |-> made[1], hit |-> FALSE, constructed |-> TRUE,
              cache |-> DateTimeCacheInsert(cache, locale, dt.options, made[1])]

----------------------------------------------------------------------------
(* Plural rules (plural.rs) *)

PluralRuleTypes == {"Cardinal", "Ordinal"}

PluralKey(locale) == <<"plural", locale>>

\* PluralOperands::from(&FixedDecimal): integer part, number of visible
\* fraction digits, and whether the fraction is zero.
PluralOperands(d) ==
    [i |-> DigitsNat([k \in 1..(d.magnitude + 1) |-> DigitAt(d, d.magnitude + 1 - k)]),
     v |-> 0 - d.lower_magnitude,
     integral |-> NonzeroMagnitudeEnd(d) >= 0]

\* Mutant of CategoryFor: the cardinal rules of en are used for every locale.
CategoryForEn(locale, rule_type, ops) ==
    IF rule_type = "Cardinal"
    THEN IF ops.i = 1 /\ ops.v = 0 THEN "one" ELSE "other"
    ELSE "other"

\* PluralRules::category_for with the CLDR rules of the two locales.
CategoryFor(locale, rule_type, ops) ==
    CASE rule_type = "Cardinal" /\ locale = "en" ->
            IF ops.i = 1 /\ ops.v = 0 THEN "one" ELSE "other"
      [] rule_type = "Ordinal" /\ locale = "en" ->
            IF ~ops.integral THEN "other"
            ELSE IF ops.i % 10 = 1 /\ ops.i % 100 # 11 THEN "one"
            ELSE IF ops.i % 10 = 2 /\ ops.i % 100 # 12 THEN "two"
            ELSE IF ops.i % 10 = 3 /\ ops.i % 100 # 13 THEN "few"
            ELSE "other"
      [] rule_type = "Cardinal" /\ locale = "pl" ->
            IF ops.v # 0 THEN "other"
            ELSE IF ops.i = 1 THEN "one"
            ELSE IF ops.i % 10 \in 2..4 /\ ops.i % 100 \notin 12..14 THEN "few"
            ELSE "many"
      [] OTHER -> "other"

\* plural_category on thread t for a FluentNumber input: the operands come
\* from as_decimal, evaluated inside category_for.
PluralCategoryWith(cache, t, locale, rule_type, d) ==
    LET hit == locale \in DOMAIN cache
        ordinal  == NewFormatter("PluralRules", t, BuiltCount(t, PluralKey(locale)) + 1,
                                 locale, "-", "Ordinal", "-", "-")
        cardinal == NewFormatter("PluralRules", t, BuiltCount(t, PluralKey(locale)) + 1,
                                 locale, "-", "Cardinal", "-", "-")
        pair  == IF hit THEN cache[locale] ELSE <<ordinal, cardinal>>
        rules == IF rule_type = "Cardinal" THEN pair[2] ELSE pair[1]
    IN  IF ~d.ok
        THEN [outcome |-> "panic", text |-> <<>>, formatter |-> rules,
              hit |-> hit, constructed |-> ~hit, cache |-> cache]
        ELSE [outcome |-> "text",
              text |-> <<CategoryFor(rules.locale, rules.date, PluralOperands(d.value))>>,
              formatter |-> rules, hit |-> hit, constructed |-> ~hit,
              cache |-> IF hit THEN cache ELSE (locale :> pair) @@ cache]

PluralCategory(cache, t, locale, rule_type, n) ==
    PluralCategoryWith(cache, t, locale, rule_type, AsDecimal(n))

----------------------------------------------------------------------------
(* Inputs *)

\* The finite and non-finite values numbers are drawn from.
Values ==
    {F64(FALSE, 0, 0), F64(TRUE, 0, 0), F64(FALSE, 1, 0), F64(TRUE, 1, 0),
     F64(FALSE, 15, -1), F64(TRUE, 15, -1), F64(FALSE, 25, -1), F64(FALSE, 5, -1),
     F64(TRUE, 5, -1), F64(FALSE, 5, -2), F64(FALSE, 1, -2), F64(FALSE, 5, -4),
     F64(TRUE, 5, -4), F64(FALSE, 4, -4), F64(FALSE, 12345, -8), F64(FALSE, 12345, -4),
     F64(TRUE, 12355, -4), F64(FALSE, 99996, -4), F64(FALSE, 9995, -4),
     F64(FALSE, 995, -1), F64(FALSE, 12345, 0), F64(FALSE, 12345678, -4),
     F64(TRUE, 9999996, -4), F64(FALSE, 2, 3),
     F64NaN, F64Inf(FALSE), F64Inf(TRUE)}

DigitOptions == {None} \cup {Some(k) : k \in 0..MaxDigits}

NotationNames == {"standard", "scientific", "engineering"}

RoundingModeNames ==
    {"ceil", "floor", "expand", "trunc", "halfCeil", "halfFloor",
     "halfExpand", "halfTrunc", "halfEven"}

\* The named arguments that set the given options (None leaves one unset).
NumberArgs(notation, grouping, rounding, min_int, min_frac, max_frac) ==
    (IF notation = None THEN <<>> ELSE <<StringArg("notation", notation[1])>>)
    \o (IF grouping = None THEN <<>> ELSE <<StringArg("useGrouping", grouping[1])>>)
    \o (IF rounding = None THEN <<>> ELSE <<StringArg("roundingMode", rounding[1])>>)
    \o (IF min_int = None THEN <<>>
        ELSE <<NumberArg("minimumIntegerDigits", F64(FALSE, min_int[1], 0))>>)
    \o (IF min_frac = None THEN <<>>
        ELSE <<NumberArg("minimumFractionDigits", F64(FALSE, min_frac[1], 0))>>)
    \o (IF max_frac = None THEN <<>>
        ELSE <<NumberArg("maximumFractionDigits", F64(FALSE, max_frac[1], 0))>>)

\* Argument lists of the single-call number specification.
AllNumberArgs ==
    {NumberArgs(no, None, ro, mi, mf, xf) :
        no \in {None} \cup {Some(x) : x \in NotationNames},
        ro \in {None} \cup {Some(x) : x \in RoundingModeNames},
        mi \in DigitOptions, mf \in DigitOptions, xf \in DigitOptions}

\* A number as a caller builds it: a value with the default options and
\* the named arguments merged into them.
NumberWith(value, args) ==
    FluentNumber(value, NumberOptionsMerge(DefaultNumberOptions, args))

\* Numbers of the cache specification: groupings and notations that give
\* different keys and texts, and a value whose text cannot be built.
CacheNumberInputs ==
    {[value |-> F64(FALSE, 12345, -1), args |-> <<>>],
     [value |-> F64(FALSE, 12345, -1), args |-> <<StringArg("useGrouping", "never")>>],
     [value |-> F64(FALSE, 12345, -1),
      args |-> <<StringArg("notation", "engineering"), StringArg("useGrouping", "min2")>>],
     [value |-> F64NaN, args |-> <<>>]}

AllDateTimeOptions ==
    [date_style : DateStyles, time_style : TimeStyles, timezone_style : TimezoneStyles]

\* Date-time options of the cache specification.
CacheDateTimeOptions ==
    {DefaultDateTimeOptions,
     [date_style |-> "Hidden", time_style |-> "Full", timezone_style |-> "Hidden"],
     [date_style |-> "Medium", time_style |-> "Full", timezone_style |-> "LocalizedGmt"],
     [date_style |-> "Hidden", time_style |-> "Hidden", timezone_style |-> "Hidden"]}

\* Instants (opaque: only their identity enters the text).
Instants == {"instantA", "instantB"}

----------------------------------------------------------------------------
(* State *)

NoNumber == FluentNumber(F64(FALSE, 0, 0), DefaultNumberOptions)

NoDateTime == FluentDateTime("instantA", DefaultDateTimeOptions)

\* The record of a call: what was asked and what came back.
Call(op, t, locale, args, num, dt, rule_type, r) ==
    [op |-> op, thread |-> t, locale |-> locale, args |-> args, num |-> num, dt |-> dt,
     rule_type |-> rule_type, outcome |-> r.outcome, text |-> r.text,
     formatter |-> r.formatter, hit |-> r.hit, constructed |-> r.constructed]

NoResult ==
    [outcome |-> "none", text |-> <<>>, formatter |-> NoFormatter,
     hit |-> FALSE, constructed |-> FALSE]

NoCall == Call("none", 0, "-", <<>>, NoNumber, NoDateTime, "-", NoResult)

\* The request a call made, without the thread it was made on.
Request(c) ==
    CASE c.op = "number"   -> <<"number", c.locale, c.num>>
      [] c.op = "datetime" -> <<"datetime", c.locale, c.dt>>
      [] OTHER             -> <<"plural", c.locale, c.rule_type, c.num>>

\* Ghost: remember the text of a request the first time it returns one.
Remember(c) ==
    IF c.outcome = "text" /\ Request(c) \notin DOMAIN firstText
    THEN (Request(c) :> c.text) @@ firstText
    ELSE firstText

InitCaches ==
    /\ numFormatters = [t \in Threads |-> EmptyMap]
    /\ dtFormatters = [t \in Threads |-> EmptyMap]
    /\ plurals = [t \in Threads |-> EmptyMap]
    /\ built = [t \in Threads |-> <<>>]
    /\ panicked = [t \in Threads |-> FALSE]
    /\ firstText = EmptyMap
    /\ calls = 0

\* No bundle function table, no resolution and no fallback request yet.
InitBundle ==
    /\ entries = EmptyMap
    /\ scope = EmptyMap
    /\ chain = EmptyMap

----------------------------------------------------------------------------
(* The operations, each a whole call on thread t *)

\* The effect of a call c that returned r: the thread's cache is what
\* the call left, a construction is added to the ghost, a panic ends the
\* thread.
Returned(t, key, c, r) ==
    /\ built' = [built EXCEPT ![t] = IF r.constructed THEN Append(@, key) ELSE @]
    /\ panicked' = [panicked EXCEPT ![t] = (r.outcome = "panic")]
    /\ last' = c
    /\ firstText' = Remember(c)
    /\ calls' = calls + 1
    /\ UNCHANGED <<entries, scope, chain>>

NumberReturned(t, args, n, locale, r) ==
    /\ numFormatters' = [numFormatters EXCEPT ![t] = r.cache]
    /\ Returned(t, NumberKey(locale, n.options.use_grouping),
                Call("number", t, locale, args, n, NoDateTime, "-", r), r)
    /\ UNCHANGED <<dtFormatters, plurals>>

\* FluentNumber::as_string(&locale)
StringifyNumber(t, args, n, locale) ==
    /\ ~panicked[t]
    /\ NumberReturned(t, args, n, locale, NumberAsString(numFormatters[t], t, n, locale))

DateTimeReturned(t, dt, locale, r) ==
    /\ dtFormatters' = [dtFormatters EXCEPT ![t] = r.cache]
    /\ Returned(t, DateTimeKey(locale, dt.options),
                Call("datetime", t, locale, <<>>, NoNumber, dt, "-", r), r)
    /\ UNCHANGED <<numFormatters, plurals>>

\* FluentDateTime::as_string(&locale)
StringifyDateTime(t, dt, locale) ==
    /\ ~panicked[t]
    /\ DateTimeReturned(t, dt, locale, DateTimeAsString(dtFormatters[t], t, dt, locale))

PluralReturned(t, locale, rule_type, args, n, r) ==
    /\ plurals' = [plurals EXCEPT ![t] = r.cache]
    /\ Returned(t, PluralKey(locale),
                Call("plural", t, locale, args, n, NoDateTime, rule_type, r), r)
    /\ UNCHANGED <<numFormatters, dtFormatters>>

\* plural_category(&locale, rule_type, &number)
PluralCategoryCall(t, locale, rule_type, args, n) ==
    /\ ~panicked[t]
    /\ PluralReturned(t, locale, rule_type, args, n,
                      PluralCategory(plurals[t], t, locale, rule_type, n))

----------------------------------------------------------------------------
(* Specification of the caches: threads make calls of the three kinds. *)

Init ==
    /\ InitCaches
    /\ InitBundle
    /\ last = NoCall
    /\ pc = "run"

NumberCall ==
    \E t \in Threads, i \in CacheNumberInputs, locale \in Locales :
        /\ calls < MaxCalls
        /\ StringifyNumber(t, i.args, NumberWith(i.value, i.args), locale)
        /\ pc' = pc

DateTimeCall ==
    \E t \in Threads, o \in CacheDateTimeOptions :
        /\ calls < MaxCalls
        /\ StringifyDateTime(t, FluentDateTime("instantA", o), "en")
        /\ pc' = pc

PluralCall ==
    \E t \in Threads, rule_type \in PluralRuleTypes :
        /\ calls < MaxCalls
        /\ PluralCategoryCall(t, "en", rule_type, <<>>, NumberWith(F64(FALSE, 1, 0), <<>>))
        /\ pc' = pc

Next == NumberCall \/ DateTimeCall \/ PluralCall

Spec == Init /\ [][Next]_vars

----------------------------------------------------------------------------
(* Specification of one number: Init draws the value and the arguments,    *)
(* the action formats it once.                                             *)

InitNumber ==
    /\ InitCaches
    /\ InitBundle
    /\ pc = "ready"
    /\ \E v \in Values, args \in AllNumberArgs :
          last = Call("none", 0, "-", args, NumberWith(v, args), NoDateTime, "-", NoResult)

FormatNumber ==
    /\ pc = "ready"
    /\ \E locale \in Locales : StringifyNumber(1, last.args, last.num, locale)
    /\ pc' = "done"

NextNumber == FormatNumber

SpecNumber == InitNumber /\ [][NextNumber]_vars

----------------------------------------------------------------------------
(* Specification of date-time formatting: two calls on one thread, each    *)
(* with any styles, so that the second may hit what the first cached.      *)

InitDateTime ==
    /\ InitCaches
    /\ InitBundle
    /\ last = NoCall
    /\ pc = "first"

FormatDateTime ==
    /\ pc \in {"first", "second"}
    /\ \E o \in AllDateTimeOptions, locale \in Locales, i \in Instants :
          StringifyDateTime(1, FluentDateTime(i, o), locale)
    /\ pc' = IF pc = "first" THEN "second" ELSE "done"

NextDateTime == FormatDateTime

SpecDateTime == InitDateTime /\ [][NextDateTime]_vars

----------------------------------------------------------------------------
(* What the claims expect, computed from the arguments by arithmetic on    *)
(* the value, not by the digit operations above.                           *)

\* The digit count a named argument sets, or the default when it is unset.
ArgDigits(args, key, default) ==
    IF \E i \in 1..Len(args) : args[i].key = key
    THEN LET a == args[CHOOSE i \in 1..Len(args) : args[i].key = key]
         IN  a.num.mant * Pow10(a.num.exp)
    ELSE default

\* The string a named argument sets, or the default when it is unset.
ArgString(args, key, default) ==
    IF \E i \in 1..Len(args) : args[i].key = key
    THEN args[CHOOSE i \in 1..Len(args) : args[i].key = key].str
    ELSE default

\* Whether rounding q + r/D (0 <= r < D) goes up in absolute value.
RoundsUp(mode, neg, q, r, D) ==
    CASE mode = "trunc"      -> FALSE
      [] mode = "expand"     -> r > 0
      [] mode = "ceil"       -> ~neg /\ r > 0
      [] mode = "floor"      -> neg /\ r > 0
      [] mode = "halfExpand" -> 2 * r >= D
      [] mode = "halfTrunc"  -> 2 * r > D
      [] mode = "halfCeil"   -> IF neg THEN 2 * r > D ELSE 2 * r >= D
      [] mode = "halfFloor"  -> IF neg THEN 2 * r >= D ELSE 2 * r > D
      [] mode = "halfEven"   -> 2 * r > D \/ (2 * r = D /\ q % 2 = 1)

\* |mant * 10^exp| rounded to p fraction digits, in units of 10^-p.
RoundedUnits(neg, mant, exp, p, mode) ==
    IF exp + p >= 0 THEN mant * Pow10(exp + p)
    ELSE LET D == Pow10(0 - (exp + p))
             q == mant \div D
             r == mant % D
         IN  IF RoundsUp(mode, neg, q, r, D) THEN q + 1 ELSE q

\* Fraction digits of R / 10^p that are left when trailing zeros are cut.
SignificantFraction(R, p) ==
    CHOOSE f \in 0..p : /\ R % Pow10(p - f) = 0
                        /\ \A g \in 0..(f - 1) : R % Pow10(p - g) # 0

\* The decimal that shows R / 10^p with at least min_int integer digits
\* (one at least) and its significant fraction digits, min_frac at least.
ExpectedDecimal(neg, R, p, min_int, min_frac) ==
    [negative |-> neg,
     digits |-> StripTrailingZeros(NatDigits(R)),
     magnitude |-> IF R = 0 THEN 0 ELSE Len(NatDigits(R)) - 1 - p,
     upper_magnitude |-> Max(Max(min_int, 1), Len(NatDigits(R \div Pow10(p)))) - 1,
     lower_magnitude |-> 0 - Max(min_frac, SignificantFraction(R, p))]

NumberDone(notations) ==
    /\ pc = "done"
    /\ last.op = "number"
    /\ last.num.value.class = "finite"
    /\ last.num.options.notation \in notations

----------------------------------------------------------------------------
(* C1: Standard notation.  With unset options defaulting to                *)
(* minimum-integer-digits 1, minimum-fraction-digits 0 and                 *)
(* maximum-fraction-digits max(minimum-fraction-digits, 3), and the        *)
(* rounding mode to HalfExpand, the text of a finite value is that of the  *)
(* value rounded at the maximum-fraction-digits position with the mode,    *)
(* trailing fraction zeros cut, the fraction padded to                     *)
(* minimum-fraction-digits.  1.0 with no option set renders "1"; 1.5 with  *)
(* maximum-fraction-digits 0 and HalfEven renders "2".                     *)

C1_HalfEvenArgs ==
    NumberArgs(None, None, Some("halfEven"), None, None, Some(0))

C1_StandardRendering ==
    NumberDone({"Standard"}) =>
        LET v        == last.num.value
            min_int  == ArgDigits(last.args, "minimumIntegerDigits", 1)
            min_frac == ArgDigits(last.args, "minimumFractionDigits", 0)
            max_frac == ArgDigits(last.args, "maximumFractionDigits", Max(min_frac, 3))
            mode     == ArgString(last.args, "roundingMode", "halfExpand")
            R        == RoundedUnits(v.negative, v.mant, v.exp, max_frac, mode)
        IN  /\ last.outcome = "text"
            /\ last.formatter.locale = last.locale
            /\ last.text = Format(last.formatter,
                                  ExpectedDecimal(v.negative, R, max_frac, min_int, min_frac))
            /\ (v = F64(FALSE, 1, 0) /\ last.args = <<>>) => last.text = <<"1">>
            /\ (v = F64(FALSE, 15, -1) /\ last.args = C1_HalfEvenArgs) => last.text = <<"2">>

C1_Witness ==
    /\ NumberDone({"Standard"})
    /\ last.num.value = F64(FALSE, 15, -1)
    /\ last.args = C1_HalfEvenArgs
    /\ last.text = <<"2">>

----------------------------------------------------------------------------
(* C5: as_string returns text, without aborting, for every 64-bit          *)
(* floating value, NaN and the infinities included.                        *)

C5_TextForEveryValue ==
    (pc = "done" /\ last.op = "number") => last.outcome = "text"

----------------------------------------------------------------------------
(* C6: Scientific and Engineering notation.  The text of a finite value is *)
(* <mantissa>E<sign><exponent>: the sign is always there, '-' exactly when *)
(* the exponent is negative; the exponent is a multiple of 1 (Scientific)  *)
(* or 3 (Engineering); the mantissa is value / 10^exponent rounded at the  *)
(* maximum-fraction-digits position with the rounding mode, shown with at  *)
(* least minimum-fraction-digits (3 when unset) fraction digits; and       *)
(* minimum-integer-digits (2 when unset) pads the exponent with zeros on   *)
(* the left.                                                               *)

\* The digits among the characters of a text, as digit values.
RECURSIVE DigitsIn(_)
DigitsIn(text) ==
    IF text = <<>> THEN <<>>
    ELSE (IF Head(text) \in DigitCharSet THEN <<DigitValue(Head(text))>> ELSE <<>>)
         \o DigitsIn(Tail(text))

C6_ScientificRendering ==
    NumberDone({"Scientific", "Engineering"}) =>
        LET v        == last.num.value
            text     == last.text
            es       == {i \in 1..Len(text) : text[i] = "E"}
            ePos     == CHOOSE i \in es : TRUE
            sign     == text[ePos + 1]
            digits   == SubSeq(text, ePos + 2, Len(text))
            abs      == DigitsNat(DigitsIn(digits))
            exponent == IF sign = "-" THEN 0 - abs ELSE abs
            multiple == IF ArgString(last.args, "notation", "standard") = "engineering"
                        THEN 3 ELSE 1
            min_int  == ArgDigits(last.args, "minimumIntegerDigits", 2)
            min_frac == ArgDigits(last.args, "minimumFractionDigits", 3)
            max_frac == ArgDigits(last.args, "maximumFractionDigits", Max(min_frac, 3))
            mode     == ArgString(last.args, "roundingMode", "halfExpand")
            R        == RoundedUnits(v.negative, v.mant, v.exp - exponent, max_frac, mode)
        IN  /\ last.outcome = "text"
            /\ Cardinality(es) = 1
            /\ Len(text) >= ePos + 2
            /\ sign \in {"+", "-"}
            /\ (sign = "-") <=> (exponent < 0)
            /\ exponent % multiple = 0
            /\ digits = Format(last.formatter, ExpectedDecimal(FALSE, abs, 0, min_int, 0))
            /\ SubSeq(text, 1, ePos - 1) =
                  Format(last.formatter, ExpectedDecimal(v.negative, R, max_frac, 0, min_frac))

C6_Witness ==
    /\ NumberDone({"Engineering"})
    /\ last.locale = "en"
    /\ last.num.value = F64(FALSE, 12345, 0)
    /\ last.text = <<"1", "2", ".", "3", "4", "5", "E", "+", "0", "3">>

----------------------------------------------------------------------------
(* C7: Standard notation.  When the effective minimum-fraction-digits is   *)
(* at most the effective maximum-fraction-digits, the decimal as_decimal   *)
(* builds has between minimum- and maximum-fraction-digits fraction digits *)
(* and at least minimum-integer-digits integer digits.                     *)

C7_DigitBounds ==
    NumberDone({"Standard"}) =>
        LET o        == last.num.options
            d        == AsDecimal(last.num).value
            min_int  == UnwrapOr(o.minimum_integer_digits, 1)
            min_frac == UnwrapOr(o.minimum_fraction_digits, 0)
            max_frac == UnwrapOr(o.maximum_fraction_digits, Max(min_frac, 3))
        IN  min_frac <= max_frac =>
                /\ min_frac <= 0 - d.lower_magnitude
                /\ 0 - d.lower_magnitude <= max_frac
                /\ d.upper_magnitude + 1 >= min_int

C7_Witness ==
    /\ NumberDone({"Standard"})
    /\ last.num.value = F64(FALSE, 99996, -4)
    /\ last.num.options.minimum_integer_digits = Some(3)
    /\ last.num.options.minimum_fraction_digits = Some(1)
    /\ last.num.options.maximum_fraction_digits = Some(2)
    /\ last.locale = "en"
    /\ last.text = <<"0", "1", "0", ".", "0">>

----------------------------------------------------------------------------
(* C2: when the non-hidden styles are exactly {date}, {time}, {date,time}, *)
(* {date,time,timezone} or {timezone}, as_string uses one formatter, of    *)
(* kind date-only, time-only, date+time, date+time+zone or zone-only       *)
(* respectively, and it is the formatter the cache holds under the locale  *)
(* and the (date style, time style, timezone style) key.                   *)

NonHidden(options) ==
    (IF options.date_style # "Hidden" THEN {"date"} ELSE {})
    \cup (IF options.time_style # "Hidden" THEN {"time"} ELSE {})
    \cup (IF options.timezone_style # "Hidden" THEN {"timezone"} ELSE {})

KindFor(shown) ==
    CASE shown = {"date"}                     -> "Date"
      [] shown = {"time"}                     -> "Time"
      [] shown = {"date", "time"}             -> "DateTime"
      [] shown = {"date", "time", "timezone"} -> "ZonedDateTime"
      [] shown = {"timezone"}                 -> "TimeZone"
      [] OTHER                                -> "None"

C2_OneFormatterOfTheKind ==
    (last.op = "datetime" /\ KindFor(NonHidden(last.dt.options)) # "None") =>
        LET cache == dtFormatters[last.thread]
            key   == DateTimeStyleKey(last.dt.options)
        IN  /\ last.outcome = "text"
            /\ last.formatter.kind = KindFor(NonHidden(last.dt.options))
            /\ Len(last.text) = 1
            /\ last.text[1][1] = KindFor(NonHidden(last.dt.options))
            /\ last.locale \in DOMAIN cache
            /\ key \in DOMAIN cache[last.locale]
            /\ cache[last.locale][key] = last.formatter

C2_Witness ==
    /\ pc = "done"
    /\ last.op = "datetime"
    /\ last.hit
    /\ last.formatter.kind = "ZonedDateTime"
    /\ Cardinality(DOMAIN dtFormatters[1][last.locale]) = 1

----------------------------------------------------------------------------
(* C3: as_string returns text and never aborts, for every combination of   *)
(* date style, time style and timezone style.                              *)

C3_TextForEveryStyle ==
    last.op = "datetime" => last.outcome = "text"

----------------------------------------------------------------------------
(* C4, as claimed: whenever the date style and the time style are both     *)
(* non-hidden, whatever the timezone style, the formatter is constructed   *)
(* with Medium for a Full or Long time style, and with the time style      *)
(* itself for Medium and Short.                                            *)

\* The formatters of the date-time cache of thread t with their keys.
DateTimeEntries(t) ==
    UNION {{[locale |-> l, key |-> k, formatter |-> dtFormatters[t][l][k]] :
                k \in DOMAIN dtFormatters[t][l]} : l \in DOMAIN dtFormatters[t]}

C4_Expected(time_style) ==
    IF time_style \in {"Full", "Long"} THEN "Medium" ELSE time_style

C4_DowngradeWhateverZone ==
    \A t \in Threads : \A e \in DateTimeEntries(t) :
        (e.key[1] # "Hidden" /\ e.key[2] # "Hidden") =>
            e.formatter.time = C4_Expected(e.key[2])

(* C4, amended: the downgrade is made when the timezone style is hidden;   *)
(* when the timezone style is non-hidden too, the zoned formatter is       *)
(* constructed with the time style unchanged.                              *)

C4_DowngradeWithoutZone ==
    \A t \in Threads : \A e \in DateTimeEntries(t) :
        (e.key[1] # "Hidden" /\ e.key[2] # "Hidden") =>
            e.formatter.time =
                IF e.key[3] = "Hidden" THEN C4_Expected(e.key[2]) ELSE e.key[2]

C4_Witness ==
    /\ \E e \in DateTimeEntries(1) :
          /\ e.key = <<"Medium", "Full", "Hidden">>
          /\ e.formatter.time = "Medium"
    /\ \E e \in DateTimeEntries(1) :
          /\ e.key = <<"Medium", "Long", "LocalizedGmt">>
          /\ e.formatter.time = "Long"

----------------------------------------------------------------------------
(* The caches of one thread, as sets of keyed entries *)

\* The entries of the three caches of thread t, each under its key.
CacheEntries(t) ==
    UNION {{[key |-> NumberKey(l, g), formatter |-> numFormatters[t][l][g]] :
                g \in DOMAIN numFormatters[t][l]} : l \in DOMAIN numFormatters[t]}
    \cup {[key |-> <<"datetime", e.locale, e.key[1], e.key[2], e.key[3]>>,
           formatter |-> e.formatter] : e \in DateTimeEntries(t)}
    \cup {[key |-> PluralKey(l), formatter |-> plurals[t][l]] : l \in DOMAIN plurals[t]}

CachedKeys(t) == {e.key : e \in CacheEntries(t)}

\* The key of the formatter a call works with.
CallKey(c) ==
    CASE c.op = "number"   -> NumberKey(c.locale, c.num.options.use_grouping)
      [] c.op = "datetime" -> DateTimeKey(c.locale, c.dt.options)
      [] OTHER             -> PluralKey(c.locale)

----------------------------------------------------------------------------
(* C8: on one thread, over any sequence of number, date-time and plural    *)
(* calls, a call constructs a formatter only when its key is absent from   *)
(* the cache and inserts it under that key before it ends; each key is     *)
(* constructed at most once; no entry is removed or replaced.              *)

C8_AtMostOnce ==
    \A t \in Threads : \A i, j \in DOMAIN built[t] :
        built[t][i] = built[t][j] => i = j

C8_Call ==
    /\ \A t \in Threads : CacheEntries(t) \subseteq CacheEntries(t)'
    /\ \A t \in Threads :
          (last'.constructed /\ last'.thread = t) =>
              /\ CallKey(last') \notin CachedKeys(t)
              /\ CallKey(last') \in CachedKeys(t)'

C8_ConstructedOnceAndInserted ==
    [](C8_AtMostOnce) /\ [][C8_Call]_vars

----------------------------------------------------------------------------
(* C9: when several threads make their calls through one concurrent        *)
(* bundle, a key that has been inserted has one formatter instance, the    *)
(* same for every thread.                                                  *)

C9_SharedInstance ==
    \A t1, t2 \in Threads :
        \A e1 \in CacheEntries(t1), e2 \in CacheEntries(t2) :
            e1.key = e2.key => e1.formatter = e2.formatter

----------------------------------------------------------------------------
(* C10: a number or a date-time stringified again for the same locale      *)
(* gives the text it gave the first time, on a miss as on a hit, whatever  *)
(* other keys the caches hold.                                             *)

C10_SameText ==
    (last.op \in {"number", "datetime"} /\ last.outcome = "text") =>
        /\ Request(last) \in DOMAIN firstText
        /\ last.text = firstText[Request(last)]

C10_Witness ==
    /\ last.op = "number"
    /\ last.outcome = "text"
    /\ last.hit
    /\ Cardinality(CachedKeys(last.thread)) >= 2
    /\ calls = MaxCalls

----------------------------------------------------------------------------
(* The fallback chain (fluent-fallback, as fluent-resmgr's                  *)
(* localization_test.rs uses it): the bundles of the ordered locale list   *)
(* are tried one after the other for a message id.                         *)

\* Bundles in the chain.
MaxBundles == 2

\* The ids the test asks for.
MessageIds == {"hello-world", "new-message", "missing-message"}

\* The locales of the test, in the order Localization::with_env gets them.
ChainLocales == <<"en-US", "pl", "fr">>

\* What a catalog holds for an id: the text its pattern resolves to and
\* whether resolving it adds diagnostics.
Message(locale, id, soft_fail) ==
    [text |-> <<locale, id>>, diagnostics |-> soft_fail]

\* The catalogs a bundle can have: any set of the ids, each
\* resolving cleanly or with diagnostics.
Catalogs ==
    UNION {[ids -> BOOLEAN] : ids \in SUBSET MessageIds}

\* The catalogs of tests/resources/{locale}/test.ftl as the test's
\* assertions show them: hello-world in both, new-message in pl only.
TestCatalog(locale) ==
    IF locale = "en-US" THEN [id \in {"hello-world"} |-> FALSE]
    ELSE [id \in {"hello-world", "new-message"} |-> FALSE]

\* bundle.get_message(id)
GetMessage(catalog, locale, id) ==
    IF id \in DOMAIN catalog THEN Some(Message(locale, id, catalog[id])) ELSE None

\* Mutant of FormatValueTry: a bundle that lacks the id ends the request.
FormatValueTryFirstOnly ==
    /\ pc = "try"
    /\ LET i == chain.index
           m == IF i <= Len(chain.bundles)
                THEN GetMessage(chain.bundles[i], ChainLocales[i], chain.id) ELSE None
       IN  /\ chain' = [chain EXCEPT !.index = i + 1,
                                     !.value = IF m = None THEN None ELSE Some(m[1].text),
                                     !.errors = IF m # None /\ m[1].diagnostics
                                                THEN Append(@, "ResolverError") ELSE @]
           /\ pc' = "done"
    /\ UNCHANGED <<numFormatters, dtFormatters, plurals, built, panicked, last,
                   firstText, calls, entries, scope>>

\* One turn of format_value_sync's loop over the bundles: the next bundle
\* is asked for the message; a bundle that has it formats it and ends the
\* request, whatever diagnostics the formatting added; a bundle that lacks
\* it passes the request on; the end of the list ends it with no value.
FormatValueTry ==
    /\ pc = "try"
    /\ LET i == chain.index
           m == IF i <= Len(chain.bundles)
                THEN GetMessage(chain.bundles[i], ChainLocales[i], chain.id) ELSE None
       IN  IF i > Len(chain.bundles)
           THEN /\ chain' = [chain EXCEPT !.value = None]
                /\ pc' = "done"
           ELSE IF m = None
           THEN /\ chain' = [chain EXCEPT !.index = i + 1,
                                          !.errors = Append(@, "MissingMessage")]
                /\ pc' = "try"
           ELSE /\ chain' = [chain EXCEPT !.index = i + 1,
                                          !.value = Some(m[1].text),
                                          !.errors = IF m[1].diagnostics
                                                     THEN Append(@, "ResolverError") ELSE @]
                /\ pc' = "done"
    /\ UNCHANGED <<numFormatters, dtFormatters, plurals, built, panicked, last,
                   firstText, calls, entries, scope>>

\* The chains of n bundles, bundle i for locale ChainLocales[i].
Chains(n) == [1..n -> Catalogs]

InitFallback ==
    /\ InitCaches
    /\ entries = EmptyMap
    /\ scope = EmptyMap
    /\ last = NoCall
    /\ pc = "try"
    /\ \E n \in 1..MaxBundles, id \in MessageIds :
          \E bs \in Chains(n) :
              chain = [bundles |-> bs, id |-> id, index |-> 1,
                       value |-> None, errors |-> <<>>]

NextFallback == FormatValueTry

SpecFallback == InitFallback /\ [][NextFallback]_vars

----------------------------------------------------------------------------
(* C11: a request for a message id tries the bundles in list order and     *)
(* returns the value formatted by the first bundle whose catalog has the   *)
(* id, with or without diagnostics, never a later bundle's; it returns no  *)
(* value exactly when no bundle of the list has the id.                    *)

\* The bundles of the chain that have the requested id.
Holders == {i \in 1..Len(chain.bundles) : chain.id \in DOMAIN chain.bundles[i]}

FirstHolder == CHOOSE i \in Holders : \A j \in Holders : i <= j

C11_FirstBundleWins ==
    pc \in {"try", "done"} =>
        /\ \A j \in 1..(chain.index - 1) :
              j \in Holders => (pc = "done" /\ j = chain.index - 1)
        /\ pc = "done" =>
              /\ (chain.value = None) <=> (Holders = {})
              /\ Holders # {} =>
                    chain.value = Some(<<ChainLocales[FirstHolder], chain.id>>)

C11_Witness ==
    /\ pc = "done"
    /\ chain.id = "new-message"
    /\ Len(chain.bundles) = 2
    /\ chain.bundles[1] = TestCatalog("en-US")
    /\ chain.bundles[2] = [TestCatalog("pl") EXCEPT !["new-message"] = TRUE]
    /\ chain.value = Some(<<"pl", "new-message">>)
    /\ chain.errors = <<"MissingMessage", "ResolverError">>

----------------------------------------------------------------------------
(* The resolver's scope: a pattern is resolved element by element; a       *)
(* reference to another entry is followed under the cycle guard and the    *)
(* depth counter.                                                          *)

\* References in one pattern.
MaxRefs == 2

\* The cap of the depth counter, scaled down for the model.
DepthCap == 2

\* The entries of the catalog: hello-world and ref, as in the example.
EntryIds == {"hello-world", "ref"}

\* A pattern: the entry's own text followed by references to entries.
Patterns == UNION {[1..n -> EntryIds] : n \in 0..MaxRefs}

Frame(id, pos) == [id |-> id, pos |-> pos]

\* The frame being resolved.
Top == scope.stack[Len(scope.stack)]

\* The stack with the top frame moved past the element it is at.
Advanced ==
    [scope.stack EXCEPT ![Len(scope.stack)] = Frame(Top.id, Top.pos + 1)]

\* The element at the top frame is a reference to entry r: a re-entered id
\* or an exhausted depth counter gives a diagnostic and the fallback text
\* {r}; otherwise r joins the guard set, the counter is incremented and
\* r's pattern is resolved.
ResolveReference ==
    /\ pc = "resolve"
    /\ Top.pos <= Len(scope.catalog[Top.id])
    /\ LET r == scope.catalog[Top.id][Top.pos]
       IN  IF r \in scope.guard
           THEN scope' = [scope EXCEPT !.stack = Advanced,
                                       !.errors = Append(@, "CyclicReference"),
                                       !.out = Append(@, <<"{", r, "}">>)]
           ELSE IF scope.depth >= DepthCap
           THEN scope' = [scope EXCEPT !.stack = Advanced,
                                       !.errors = Append(@, "TooManyPlaceables"),
                                       !.out = Append(@, <<"{", r, "}">>)]
           ELSE scope' = [scope EXCEPT !.stack = Append(Advanced, Frame(r, 1)),
                                       !.guard = @ \cup {r},
                                       !.depth = @ + 1,
                                       !.out = Append(@, <<r>>)]
    /\ pc' = pc
    /\ UNCHANGED <<numFormatters, dtFormatters, plurals, built, panicked, last,
                   firstText, calls, entries, chain>>

\* Mutant of ResolveReturn: the id stays in the guard set on return.
ResolveReturnKeepGuard ==
    /\ pc = "resolve"
    /\ Top.pos > Len(scope.catalog[Top.id])
    /\ scope' = [scope EXCEPT !.stack = SubSeq(@, 1, Len(@) - 1)]
    /\ pc' = IF Len(scope.stack) = 1 THEN "done" ELSE pc
    /\ UNCHANGED <<numFormatters, dtFormatters, plurals, built, panicked, last,
                   firstText, calls, entries, chain>>

\* The pattern of the top frame is at its end: the resolver returns to the
\* referencing pattern and takes the id out of the guard set; the end of
\* the requested pattern ends the resolution.
ResolveReturn ==
    /\ pc = "resolve"
    /\ Top.pos > Len(scope.catalog[Top.id])
    /\ scope' = [scope EXCEPT !.stack = SubSeq(@, 1, Len(@) - 1),
                              !.guard = IF Len(scope.stack) = 1 THEN @ ELSE @ \ {Top.id}]
    /\ pc' = IF Len(scope.stack) = 1 THEN "done" ELSE pc
    /\ UNCHANGED <<numFormatters, dtFormatters, plurals, built, panicked, last,
                   firstText, calls, entries, chain>>

\* format_pattern of the pattern of entry root, with a fresh scope.
InitResolve ==
    /\ InitCaches
    /\ entries = EmptyMap
    /\ chain = EmptyMap
    /\ last = NoCall
    /\ pc = "resolve"
    /\ \E catalog \in [EntryIds -> Patterns], root \in EntryIds :
          scope = [catalog |-> catalog, stack |-> <<Frame(root, 1)>>, guard |-> {},
                   depth |-> 0, errors |-> <<>>, out |-> << <<root>> >>]

NextResolve == ResolveReference \/ ResolveReturn

\* A resolution in progress is carried on: it is synchronous work.
SpecResolve == InitResolve /\ [][NextResolve]_vars /\ WF_vars(NextResolve)

----------------------------------------------------------------------------
(* C12: a message that references itself, directly or through a chain,     *)
(* always terminates.  An entry is entered only with its id absent from    *)
(* the guard set, the id is then added and the depth counter incremented;  *)
(* a reference to an id in the guard set gives CyclicReference and the     *)
(* fallback text; past the depth cap a reference gives TooManyPlaceables;  *)
(* the guard set holds exactly the ids of the entries being resolved, so   *)
(* an id is out of it once its pattern has returned and a second           *)
(* reference to the same entry is not a cycle.                             *)

\* The ids of the referenced entries whose patterns are being resolved.
Entered == {scope.stack[i].id : i \in 2..Len(scope.stack)}

C12_Guard ==
    pc \in {"resolve", "done"} =>
        /\ scope.guard = Entered
        /\ Cardinality(Entered) = Max(0, Len(scope.stack) - 1)
        /\ scope.depth <= DepthCap
        /\ pc = "done" => scope.guard = {}

C12_Reference ==
    (pc = "resolve" /\ Top.pos <= Len(scope.catalog[Top.id])) =>
        LET r == scope.catalog[Top.id][Top.pos]
        IN  /\ r \in scope.guard =>
                /\ Len(scope'.stack) = Len(scope.stack)
                /\ scope'.errors = Append(scope.errors, "CyclicReference")
                /\ scope'.out = Append(scope.out, <<"{", r, "}">>)
            /\ (r \notin scope.guard /\ scope.depth >= DepthCap) =>
                /\ Len(scope'.stack) = Len(scope.stack)
                /\ scope'.errors = Append(scope.errors, "TooManyPlaceables")
            /\ Len(scope'.stack) > Len(scope.stack) =>
                /\ r \notin scope.guard
                /\ scope'.guard = scope.guard \cup {r}
                /\ scope'.depth = scope.depth + 1
                /\ scope'.errors = scope.errors

C12_GuardedRecursion ==
    /\ [](C12_Guard)
    /\ [][C12_Reference]_vars
    /\ <>(pc = "done")

\* ref = { hello-world } { hello-world }: the second reference is resolved
\* like the first.
C12_Witness ==
    /\ pc = "done"
    /\ scope.catalog["ref"] = <<"hello-world", "hello-world">>
    /\ scope.catalog["hello-world"] = <<>>
    /\ scope.out = << <<"ref">>, <<"hello-world">>, <<"hello-world">> >>
    /\ scope.errors = <<>>
    /\ scope.depth = DepthCap

----------------------------------------------------------------------------
(* Number literals and select expressions: FluentNumber::from_str, the     *)
(* plural category of the selector and the choice of the variant.          *)

\* Variants of one select expression.
MaxVariants == 2

\* Removes factors of ten from a nonzero mantissa, raising the exponent.
RECURSIVE Shortest(_, _, _)
Shortest(neg, mant, exp) ==
    IF mant = 0 THEN F64(neg, 0, 0)
    ELSE IF mant % 10 = 0 THEN Shortest(neg, mant \div 10, exp + 1)
    ELSE F64(neg, mant, exp)

\* f64::from_str on a text without exponent: optional sign, digits with at
\* most one point and a digit on at least one side of it.
F64FromStr(input) ==
    LET signed == Len(input) > 0 /\ input[1] \in {"-", "+"}
        body   == IF signed THEN Tail(input) ELSE input
        dots   == {i \in 1..Len(body) : body[i] = "."}
        dot    == IF dots = {} THEN Len(body) + 1 ELSE CHOOSE i \in dots : TRUE
        ok     == /\ Cardinality(dots) <= 1
                  /\ \A i \in 1..Len(body) : body[i] \in DigitCharSet \cup {"."}
                  /\ \E i \in 1..Len(body) : body[i] \in DigitCharSet
        ds     == [i \in 1..(Len(body) - Cardinality(dots)) |->
                      DigitValue(body[IF i < dot THEN i ELSE i + 1])]
    IN  IF ok
        THEN Some(Shortest(signed /\ input[1] = "-", DigitsNat(ds),
                           0 - (Len(body) - Min(dot, Len(body)))))
        ELSE None

\* input.find('.'): the zero-based position of the first point.
FindPoint(input) ==
    LET dots == {i \in 1..Len(input) : input[i] = "."}
    IN  IF dots = {} THEN None ELSE Some((CHOOSE i \in dots : \A j \in dots : i <= j) - 1)

\* Mutant of FluentNumberFromStr: the fraction digits of the text are not
\* recorded.
FluentNumberFromStrPlain(input) ==
    LET n == F64FromStr(input)
    IN  IF n = None THEN None ELSE Some(FluentNumber(n[1], DefaultNumberOptions))

\* impl FromStr for FluentNumber: Err (None) or the number with
\* minimum_fraction_digits = the count of characters after the point.
FluentNumberFromStr(input) ==
    LET n   == F64FromStr(input)
        pos == FindPoint(input)
        mfd == IF pos = None THEN None ELSE Some(Len(input) - pos[1] - 1)
    IN  IF n = None THEN None
        ELSE Some(FluentNumber(n[1], [DefaultNumberOptions EXCEPT
                                         !.minimum_fraction_digits = mfd]))

\* The literal texts a selector is parsed from.
Literals ==
    {<<"0">>,
     <<"1">>,
     <<"2">>,
     <<"5">>,
     <<"1", "2">>,
     <<"2", "1">>,
     <<"1", ".", "0">>,
     <<"1", ".", "0", "0">>,
     <<"1", ".", "5">>,
     <<"0", ".", "1", "0">>,
     <<"2", ".", "0">>,
     <<"5", ".", "0", "0", "0">>,
     <<"1", ".", "0", "0", "0", "0">>,
     <<"-", "1">>,
     <<"3", ".">>,
     <<"x">>}

\* The integer arguments a selector is given as (args.set("emailCount", 1)).
SelectorArgs == {F64(FALSE, 0, 0), F64(FALSE, 1, 0), F64(FALSE, 2, 0), F64(FALSE, 5, 0)}

PluralCategories == {"zero", "one", "two", "few", "many", "other"}

\* The variant lists: distinct identifier keys in declaration order.
VariantKeys ==
    UNION {{ks \in [1..n -> PluralCategories] :
               \A i, j \in 1..n : ks[i] = ks[j] => i = j} : n \in 1..MaxVariants}

\* The selector as a value: a literal through from_str, an argument
\* through from_num! with the default options.
SelectorNumber(selector) ==
    IF selector.kind = "literal" THEN FluentNumberFromStr(selector.text)
    ELSE Some(FluentNumber(selector.value, DefaultNumberOptions))

\* The variant a Number selector picks: the first whose key is the
\* category, else the one marked default.
PickVariant(keys, default, category) ==
    LET matching == {i \in 1..Len(keys) : <<keys[i]>> = category}
    IN  IF matching = {} THEN default ELSE CHOOSE i \in matching : \A j \in matching : i <= j

\* The select expression with the selector's number n and the result r of
\* plural_category for it on thread 1.
SelectWith(n, r) ==
    /\ plurals' = [plurals EXCEPT ![1] = r.cache]
    /\ built' = [built EXCEPT ![1] = IF r.constructed
                                      THEN Append(@, PluralKey(scope.locale)) ELSE @]
    /\ panicked' = [panicked EXCEPT ![1] = (r.outcome = "panic")]
    /\ last' = Call("plural", 1, scope.locale, <<>>, n, NoDateTime, "Cardinal", r)
    /\ scope' = [scope EXCEPT !.picked = IF r.outcome = "text"
                                         THEN PickVariant(scope.keys, scope.default, r.text)
                                         ELSE 0]
    /\ calls' = calls + 1
    /\ UNCHANGED <<numFormatters, dtFormatters, firstText, entries, chain>>

SelectNumber(n) ==
    SelectWith(n, PluralCategory(plurals[1], 1, scope.locale, "Cardinal", n))

\* A selector that is not a number takes the default variant.
SelectDefault ==
    /\ scope' = [scope EXCEPT !.picked = scope.default]
    /\ UNCHANGED <<numFormatters, dtFormatters, plurals, built, panicked, last,
                   firstText, calls, entries, chain>>

SelectExpression ==
    /\ pc = "select"
    /\ IF SelectorNumber(scope.selector) = None
       THEN SelectDefault
       ELSE SelectNumber(SelectorNumber(scope.selector)[1])
    /\ pc' = "done"

InitSelect ==
    /\ InitCaches
    /\ entries = EmptyMap
    /\ chain = EmptyMap
    /\ last = NoCall
    /\ pc = "select"
    /\ \E selector \in [kind : {"literal"}, text : Literals]
                       \cup [kind : {"argument"}, value : SelectorArgs],
          keys \in VariantKeys, locale \in Locales :
          \E default \in 1..Len(keys) :
              scope = [selector |-> selector, keys |-> keys, default |-> default,
                       locale |-> locale, picked |-> 0]

NextSelect == SelectExpression

SpecSelect == InitSelect /\ [][NextSelect]_vars

----------------------------------------------------------------------------
(* What a selector's text says: its integer part and the number of digits  *)
(* written after the point.                                                *)

SelectorDigits(selector) ==
    LET body == IF selector.text[1] \in {"-", "+"} THEN Tail(selector.text)
                ELSE selector.text
        dots == {i \in 1..Len(body) : body[i] = "."}
        dot  == IF dots = {} THEN Len(body) + 1 ELSE CHOOSE i \in dots : TRUE
    IN  [i |-> DigitsNat([k \in 1..(dot - 1) |-> DigitValue(body[k])]),
         v |-> Len(body) - Min(dot, Len(body)),
         point |-> dots # {}]

SelectorOperands ==
    IF scope.selector.kind = "literal" THEN SelectorDigits(scope.selector)
    ELSE [i |-> scope.selector.value.mant * Pow10(scope.selector.value.exp),
          v |-> 0, point |-> FALSE]

\* The CLDR cardinal category of a number with integer part i and v
\* visible fraction digits.
CardinalCategory(locale, i, v) ==
    IF locale = "en"
    THEN (IF i = 1 /\ v = 0 THEN "one" ELSE "other")
    ELSE (IF v # 0 THEN "other"
          ELSE IF i = 1 THEN "one"
          ELSE IF i % 10 \in 2..4 /\ i % 100 \notin 12..14 THEN "few"
          ELSE "many")

SelectDone == pc = "done" /\ last.op = "plural" /\ scope.picked # 0

(* C13: a select expression with a Number selector and identifier keys     *)
(* picks the variant whose key is the cardinal plural category of the      *)
(* selector in the bundle's locale, else the default variant; under en     *)
(* with [one] and *[other], 1 picks [one] and 5 picks [other].             *)

C13_VariantOfCategory ==
    SelectDone =>
        LET category == CardinalCategory(scope.locale, SelectorOperands.i, SelectorOperands.v)
            matching == {i \in 1..Len(scope.keys) : scope.keys[i] = category}
        IN  /\ last.outcome = "text"
            /\ matching # {} => scope.keys[scope.picked] = category
            /\ matching = {} => scope.picked = scope.default
            /\ (scope.locale = "en" /\ scope.keys = <<"one", "other">> /\ scope.default = 2) =>
                  /\ scope.selector = [kind |-> "argument", value |-> F64(FALSE, 1, 0)]
                        => scope.picked = 1
                  /\ scope.selector = [kind |-> "argument", value |-> F64(FALSE, 5, 0)]
                        => scope.picked = 2

C13_Witness ==
    /\ SelectDone
    /\ scope.locale = "en"
    /\ scope.keys = <<"one", "other">>
    /\ scope.default = 2
    /\ scope.selector = [kind |-> "argument", value |-> F64(FALSE, 1, 0)]
    /\ scope.picked = 1

(* C14: a number parsed from a literal digits or digits.digits with k      *)
(* digits after the point has minimum-fraction-digits k (unset without a   *)
(* point), and its plural operands have exactly k visible fraction digits, *)
(* trailing zeros included: "1.0" and "1" have different operands and can  *)
(* fall in different categories.                                           *)

----------------------------------------------------------------------------
(* The concurrent bundle's function table (concurrent.rs new_concurrent    *)
(* and the bundle's add_function).                                         *)

\* Names a caller registers functions under.
FunctionNames == {"NUMBER", "DATETIME", "PLATFORM", "STRLEN"}

\* The callables: the two closures of new_concurrent and a caller's own.
Callables == {"number_closure", "datetime_closure", "caller_closure"}

\* add_function: Ok with the function entered under a vacant name, the
\* Overriding error with the table as it was under a taken one.
AddFunction(table, name, function) ==
    IF name \in DOMAIN table
    THEN [ok |-> FALSE, error |-> <<"Overriding", "function", name>>, entries |-> table]
    ELSE [ok |-> TRUE, error |-> <<>>, entries |-> (name :> function) @@ table]

\* Mutant of NewConcurrent: DATETIME is not registered.
NewConcurrentNumberOnly ==
    AddFunction(EmptyMap, "NUMBER", "number_closure")

\* FluentBundle::new_concurrent: an empty table, then NUMBER and DATETIME
\* added, each result unwrapped.
NewConcurrent ==
    AddFunction(AddFunction(EmptyMap, "NUMBER", "number_closure").entries,
                "DATETIME", "datetime_closure")

\* bundle.add_function(name, function) by a caller, with its result r.
AddFunctionReturned(name, function, r) ==
    /\ entries' = r.entries
    /\ last' = [op |-> "add_function", name |-> name, function |-> function,
                before |-> entries, ok |-> r.ok, error |-> r.error]
    /\ calls' = calls + 1
    /\ pc' = pc
    /\ UNCHANGED <<numFormatters, dtFormatters, plurals, built, panicked,
                   firstText, scope, chain>>

AddFunctionCall ==
    /\ pc = "bundle"
    /\ calls < MaxCalls
    /\ \E name \in FunctionNames, function \in Callables :
          AddFunctionReturned(name, function, AddFunction(entries, name, function))

InitFunctions ==
    /\ InitCaches
    /\ scope = EmptyMap
    /\ chain = EmptyMap
    /\ NewConcurrent.ok
    /\ entries = NewConcurrent.entries
    /\ last = [op |-> "new_concurrent", name |-> "-", function |-> "-",
               before |-> EmptyMap, ok |-> TRUE, error |-> <<>>]
    /\ pc = "bundle"

NextFunctions == AddFunctionCall

SpecFunctions == InitFunctions /\ [][NextFunctions]_vars

----------------------------------------------------------------------------
(* C15: the bundle of new_concurrent has NUMBER and DATETIME registered;   *)
(* registering under a name already in the table, NUMBER and DATETIME      *)
(* included, fails with the conflict error and leaves the entry and the    *)
(* rest of the table as they were.                                         *)

C15_BuiltinsAndConflict ==
    pc = "bundle" =>
        /\ {"NUMBER", "DATETIME"} \subseteq DOMAIN entries
        /\ entries["NUMBER"] = "number_closure"
        /\ entries["DATETIME"] = "datetime_closure"
        /\ (last.op = "add_function" /\ last.name \in DOMAIN last.before) =>
              /\ ~last.ok
              /\ last.error = <<"Overriding", "function", last.name>>
              /\ entries = last.before

C15_Witness ==
    /\ pc = "bundle"
    /\ last.op = "add_function"
    /\ last.name = "DATETIME"
    /\ last.function = "caller_closure"
    /\ ~last.ok
    /\ "PLATFORM" \in DOMAIN entries
    /\ entries["DATETIME"] = "datetime_closure"

----------------------------------------------------------------------------
(* The merge of named arguments into the options (number.rs and            *)
(* datetime.rs merge).                                                     *)

\* impl From<&str> for FluentDateStyle / FluentTimeStyle
DateStyleFromStr(input) ==
    CASE input = "full"   -> "Full"
      [] input = "long"   -> "Long"
      [] input = "medium" -> "Medium"
      [] input = "short"  -> "Short"
      [] input = "hidden" -> "Hidden"
      [] OTHER            -> "Medium"

TimeStyleFromStr(input) == DateStyleFromStr(input)

\* impl From<&str> for FluentTimezoneStyle
TimezoneStyleFromStr(input) ==
    CASE input = "gmt"         -> "LocalizedGmt"
      [] input = "basic"       -> "Iso8601Basic"
      [] input = "extended"    -> "Iso8601Extended"
      [] input = "utcBasic"    -> "Iso8601UtcBasic"
      [] input = "utcExtended" -> "Iso8601UtcExtended"
      [] OTHER                 -> "Hidden"

\* A named argument whose value is neither a String nor a Number.
OtherArg(key) == [key |-> key, type |-> "None", str |-> "", num |-> F64(FALSE, 0, 0)]

\* Mutant of DateTimeOptionsMergeOne: the timeStyle arm writes the date
\* style.
DateTimeOptionsMergeOneDate(o, a) ==
    CASE a.key = "dateStyle" /\ a.type = "String" ->
            [o EXCEPT !.date_style = DateStyleFromStr(a.str)]
      [] a.key = "timeStyle" /\ a.type = "String" ->
            [o EXCEPT !.date_style = TimeStyleFromStr(a.str)]
      [] a.key = "timezoneStyle" /\ a.type = "String" ->
            [o EXCEPT !.timezone_style = TimezoneStyleFromStr(a.str)]
      [] OTHER -> o

\* One arm of the match in FluentDateTimeOptions::merge.
DateTimeOptionsMergeOne(o, a) ==
    CASE a.key = "dateStyle" /\ a.type = "String" ->
            [o EXCEPT !.date_style = DateStyleFromStr(a.str)]
      [] a.key = "timeStyle" /\ a.type = "String" ->
            [o EXCEPT !.time_style = TimeStyleFromStr(a.str)]
      [] a.key = "timezoneStyle" /\ a.type = "String" ->
            [o EXCEPT !.timezone_style = TimezoneStyleFromStr(a.str)]
      [] OTHER -> o

\* FluentDateTimeOptions::merge: the arguments are applied in order.
RECURSIVE DateTimeOptionsMerge(_, _)
DateTimeOptionsMerge(o, args) ==
    IF args = <<>> THEN o
    ELSE DateTimeOptionsMerge(DateTimeOptionsMergeOne(o, Head(args)), Tail(args))

\* Keys of named arguments: the option names of both structs, a name in
\* the wrong case and a name that is no option.
ArgKeys ==
    {"style", "notation", "currency", "currencyDisplay", "useGrouping", "roundingMode",
     "minimumIntegerDigits", "minimumFractionDigits", "maximumFractionDigits",
     "minimumSignificantDigits", "maximumSignificantDigits",
     "dateStyle", "timeStyle", "timezoneStyle", "minimumfractiondigits", "unknown"}

ArgStrings ==
    {"scientific", "never", "halfEven", "currency", "code", "full", "gmt", "USD", "bogus"}

ArgNumbers ==
    {F64(FALSE, 0, 0), F64(FALSE, 2, 0), F64(FALSE, 15, -1), F64(TRUE, 1, 0), F64NaN}

\* The entries a FluentArgs can hold.
ArgEntries ==
    {StringArg(k, x) : k \in ArgKeys, x \in ArgStrings}
    \cup {NumberArg(k, v) : k \in ArgKeys, v \in ArgNumbers}
    \cup {OtherArg(k) : k \in ArgKeys}

\* Options with no field at its default.
CustomNumberOptions ==
    [style |-> "Percent", notation |-> "Engineering", currency |-> Some("EUR"),
     currency_display |-> "Name", use_grouping |-> "Min2",
     minimum_integer_digits |-> Some(3), minimum_fraction_digits |-> Some(1),
     maximum_fraction_digits |-> Some(3), minimum_significant_digits |-> Some(1),
     maximum_significant_digits |-> Some(3), rounding_mode |-> "Floor"]

CustomDateTimeOptions ==
    [date_style |-> "Short", time_style |-> "Long", timezone_style |-> "Iso8601Basic"]

\* options.merge(&args) for a FluentArgs of one entry, on a
\* FluentNumberOptions.
MergeNumberOptions ==
    /\ pc = "merge"
    /\ last' = [last EXCEPT !.op = "merge_number",
                            !.after = NumberOptionsMerge(last.number, <<last.entry>>)]
    /\ pc' = "done"
    /\ UNCHANGED <<numFormatters, dtFormatters, plurals, built, panicked,
                   firstText, calls, entries, scope, chain>>

\* The same on a FluentDateTimeOptions.
MergeDateTimeOptions ==
    /\ pc = "merge"
    /\ last' = [last EXCEPT !.op = "merge_datetime",
                            !.after = DateTimeOptionsMerge(last.datetime, <<last.entry>>)]
    /\ pc' = "done"
    /\ UNCHANGED <<numFormatters, dtFormatters, plurals, built, panicked,
                   firstText, calls, entries, scope, chain>>

InitMerge ==
    /\ InitCaches
    /\ InitBundle
    /\ pc = "merge"
    /\ \E n \in {DefaultNumberOptions, CustomNumberOptions},
          d \in {DefaultDateTimeOptions, CustomDateTimeOptions},
          e \in ArgEntries :
          last = [op |-> "none", number |-> n, datetime |-> d, entry |-> e, after |-> <<>>]

NextMerge == MergeNumberOptions \/ MergeDateTimeOptions

SpecMerge == InitMerge /\ [][NextMerge]_vars

----------------------------------------------------------------------------
(* C16: merge ignores an entry whose key is no option name, and an entry   *)
(* whose key is an option name but whose value has the wrong variant: the  *)
(* options are left as they were; an entry it recognises changes its own   *)
(* field only.                                                             *)

\* The field an entry sets: the option names with the variant each wants.
NumberField(e) ==
    CASE e.type = "String" /\ e.key = "style"           -> "style"
      [] e.type = "String" /\ e.key = "notation"        -> "notation"
      [] e.type = "String" /\ e.key = "currency"        -> "currency"
      [] e.type = "String" /\ e.key = "currencyDisplay" -> "currency_display"
      [] e.type = "String" /\ e.key = "useGrouping"     -> "use_grouping"
      [] e.type = "String" /\ e.key = "roundingMode"    -> "rounding_mode"
      [] e.type = "Number" /\ e.key = "minimumIntegerDigits"     -> "minimum_integer_digits"
      [] e.type = "Number" /\ e.key = "minimumFractionDigits"    -> "minimum_fraction_digits"
      [] e.type = "Number" /\ e.key = "maximumFractionDigits"    -> "maximum_fraction_digits"
      [] e.type = "Number" /\ e.key = "minimumSignificantDigits" -> "minimum_significant_digits"
      [] e.type = "Number" /\ e.key = "maximumSignificantDigits" -> "maximum_significant_digits"
      [] OTHER -> "-"

DateTimeField(e) ==
    CASE e.type = "String" /\ e.key = "dateStyle"     -> "date_style"
      [] e.type = "String" /\ e.key = "timeStyle"     -> "time_style"
      [] e.type = "String" /\ e.key = "timezoneStyle" -> "timezone_style"
      [] OTHER -> "-"

OnlyFieldChanged(before, after, field) ==
    /\ DOMAIN after = DOMAIN before
    /\ \A f \in DOMAIN before : f # field => after[f] = before[f]

C16_MergeFrame ==
    /\ (pc = "done" /\ last.op = "merge_number") =>
          OnlyFieldChanged(last.number, last.after, NumberField(last.entry))
    /\ (pc = "done" /\ last.op = "merge_datetime") =>
          OnlyFieldChanged(last.datetime, last.after, DateTimeField(last.entry))

\* A String for minimumFractionDigits changes nothing; a String for
\* timeStyle changes the time style.
C16_Witness ==
    /\ pc = "done"
    /\ last.entry.key \in {"minimumFractionDigits", "timeStyle"}
    /\ last.entry = StringArg(last.entry.key, "full")
    /\ \/ /\ last.op = "merge_number"
          /\ last.number = CustomNumberOptions
          /\ last.after = CustomNumberOptions
          /\ last.entry.key = "minimumFractionDigits"
       \/ /\ last.op = "merge_datetime"
          /\ last.datetime = CustomDateTimeOptions
          /\ last.after = [CustomDateTimeOptions EXCEPT !.time_style = "Full"]
          /\ last.entry.key = "timeStyle"

----------------------------------------------------------------------------
(* Locale negotiation (fluent-langneg) with MockLikelySubtags::maximize    *)
(* (likely_subtags.rs).  A locale is its language, script and region       *)
(* subtags, "" for an absent one.                                          *)

\* Requested locales in one negotiation.
MaxRequested == 2

LocaleId(language, script, region) ==
    [language |-> language, script |-> script, region |-> region]

\* Locale::to_string
LocaleToString(l) ==
    <<l.language>> \o (IF l.script = "" THEN <<>> ELSE <<l.script>>)
                   \o (IF l.region = "" THEN <<>> ELSE <<l.region>>)

REGION_MATCHING_KEYS ==
    {"az", "bg", "cs", "de", "es", "fi", "fr", "hu", "it", "lt", "lv", "nl", "pl", "ro", "ru"}

\* subtag.parse::<Region>(): the two letters in upper case.
RegionOf(subtag) ==
    CASE subtag = "az" -> "AZ" [] subtag = "bg" -> "BG" [] subtag = "cs" -> "CS"
      [] subtag = "de" -> "DE" [] subtag = "es" -> "ES" [] subtag = "fi" -> "FI"
      [] subtag = "fr" -> "FR" [] subtag = "hu" -> "HU" [] subtag = "it" -> "IT"
      [] subtag = "lt" -> "LT" [] subtag = "lv" -> "LV" [] subtag = "nl" -> "NL"
      [] subtag = "pl" -> "PL" [] subtag = "ro" -> "RO" [] OTHER -> "RU"

\* Mutant of Maximize: the table has no entry for az-IR.
MaximizeNoAzIR(l) ==
    LET text == LocaleToString(l)
    IN  CASE text = <<"en">>       -> [found |-> TRUE, locale |-> LocaleId("en", "Latn", "US")]
          [] text = <<"fr">>       -> [found |-> TRUE, locale |-> LocaleId("fr", "Latn", "FR")]
          [] text = <<"sr">>       -> [found |-> TRUE, locale |-> LocaleId("sr", "Cyrl", "SR")]
          [] text = <<"sr", "RU">> -> [found |-> TRUE, locale |-> LocaleId("sr", "Latn", "SR")]
          [] text = <<"zh", "GB">> -> [found |-> TRUE, locale |-> LocaleId("zh", "Hant", "GB")]
          [] text = <<"zh", "US">> -> [found |-> TRUE, locale |-> LocaleId("zh", "Hant", "US")]
          [] OTHER ->
                IF l.language \in REGION_MATCHING_KEYS
                THEN [found |-> TRUE, locale |-> [l EXCEPT !.region = RegionOf(l.language)]]
                ELSE [found |-> FALSE, locale |-> l]

\* MockLikelySubtags::maximize for Locale: the value returned and the
\* locale as the call leaves it.
Maximize(l) ==
    LET text == LocaleToString(l)
    IN  CASE text = <<"en">>       -> [found |-> TRUE, locale |-> LocaleId("en", "Latn", "US")]
          [] text = <<"fr">>       -> [found |-> TRUE, locale |-> LocaleId("fr", "Latn", "FR")]
          [] text = <<"sr">>       -> [found |-> TRUE, locale |-> LocaleId("sr", "Cyrl", "SR")]
          [] text = <<"sr", "RU">> -> [found |-> TRUE, locale |-> LocaleId("sr", "Latn", "SR")]
          [] text = <<"az", "IR">> -> [found |-> TRUE, locale |-> LocaleId("az", "Arab", "IR")]
          [] text = <<"zh", "GB">> -> [found |-> TRUE, locale |-> LocaleId("zh", "Hant", "GB")]
          [] text = <<"zh", "US">> -> [found |-> TRUE, locale |-> LocaleId("zh", "Hant", "US")]
          [] OTHER ->
                IF l.language \in REGION_MATCHING_KEYS
                THEN [found |-> TRUE, locale |-> [l EXCEPT !.region = RegionOf(l.language)]]
                ELSE [found |-> FALSE, locale |-> l]

\* The locales negotiated over, in the order available lists keep them.
NegotiationLocales ==
    <<LocaleId("az", "", ""), LocaleId("az", "Arab", "IR"), LocaleId("az", "", "IR"),
      LocaleId("en", "", ""), LocaleId("en", "Latn", "US"), LocaleId("de", "", "AT")>>

\* The first locale of a list that satisfies a test given as a set.
FirstIn(list, wanted) ==
    LET hits == {i \in 1..Len(list) : list[i] \in wanted}
    IN  IF hits = {} THEN None ELSE Some(list[CHOOSE i \in hits : \A j \in hits : i <= j])

\* The best available match of one requested locale: the exact one, else
\* the maximized requested locale, else one of the same language.
BestMatch(requested, available) ==
    LET exact     == FirstIn(available, {requested})
        maximized == FirstIn(available, {Maximize(requested).locale})
        language  == FirstIn(available,
                             {available[i] : i \in {j \in 1..Len(available) :
                                 available[j].language = requested.language}})
    IN  IF exact # None THEN exact
        ELSE IF maximized # None THEN maximized
        ELSE language

\* A list without the repetitions of its elements, first occurrences kept.
RECURSIVE Deduplicated(_)
Deduplicated(list) ==
    IF list = <<>> THEN <<>>
    ELSE LET front == Deduplicated(SubSeq(list, 1, Len(list) - 1))
             x     == list[Len(list)]
         IN  IF x \in {front[i] : i \in 1..Len(front)} THEN front ELSE Append(front, x)

\* The matches of the requested locales in order, those without a match
\* left out.
RECURSIVE MatchesOf(_, _)
MatchesOf(requested, available) ==
    IF requested = <<>> THEN <<>>
    ELSE BestMatch(Head(requested), available) \o MatchesOf(Tail(requested), available)

\* negotiate(requested, available, default, strategy) for the strategies
\* Matching and Lookup.
NegotiateLanguages(requested, available, default, strategy) ==
    LET matches == MatchesOf(requested, available)
    IN  IF strategy = "Matching" THEN Deduplicated(matches \o default)
        ELSE IF matches # <<>> THEN <<matches[1]>>
        ELSE default

\* The available lists: the locales of a set in the order of
\* NegotiationLocales.
RECURSIVE Listed(_, _)
Listed(set, i) ==
    IF i > Len(NegotiationLocales) THEN <<>>
    ELSE (IF NegotiationLocales[i] \in set THEN <<NegotiationLocales[i]>> ELSE <<>>)
         \o Listed(set, i + 1)

NegotiationLocaleSet == {NegotiationLocales[i] : i \in 1..Len(NegotiationLocales)}

Negotiate ==
    /\ pc = "negotiate"
    /\ last' = [last EXCEPT
                   !.op = "negotiate",
                   !.result = NegotiateLanguages(last.requested, last.available,
                                                 last.default, last.strategy)]
    /\ pc' = "done"
    /\ UNCHANGED <<numFormatters, dtFormatters, plurals, built, panicked,
                   firstText, calls, entries, scope, chain>>

InitNegotiate ==
    /\ InitCaches
    /\ InitBundle
    /\ pc = "negotiate"
    /\ \E n \in 1..MaxRequested, set \in SUBSET NegotiationLocaleSet,
          default \in {None, Some(LocaleId("en", "", ""))},
          strategy \in {"Matching", "Lookup"} :
          \E requested \in [1..n -> NegotiationLocaleSet] :
              last = [op |-> "none", requested |-> requested,
                      available |-> Listed(set, 1), default |-> default,
                      strategy |-> strategy, result |-> <<>>]

NextNegotiate == Negotiate

SpecNegotiate == InitNegotiate /\ [][NextNegotiate]_vars

----------------------------------------------------------------------------
(* C17: a requested locale without an exact match among the available      *)
(* locales, whose maximized form is an available locale, is matched to     *)
(* that locale before a language-only match is tried:                      *)
(* negotiate(["az-IR"], ["az-Arab-IR"], Matching) is ["az-Arab-IR"].       *)

InList(x, list) == \E i \in 1..Len(list) : list[i] = x

C17_MaximizedBeforeLanguage ==
    (pc = "done" /\ last.op = "negotiate") =>
        LET first == last.requested[1]
            azIR  == LocaleId("az", "", "IR")
            azArabIR == LocaleId("az", "Arab", "IR")
        IN  /\ (~InList(first, last.available) /\ InList(Maximize(first).locale, last.available))
                  => last.result[1] = Maximize(first).locale
            /\ (first = azIR /\ ~InList(azIR, last.available)
                   /\ InList(azArabIR, last.available))
                  => last.result[1] = azArabIR
            /\ (last.requested = <<azIR>> /\ last.available = <<azArabIR>>
                   /\ last.default = None /\ last.strategy = "Matching")
                  => last.result = <<azArabIR>>

\* az-Arab-IR is taken although az, of the same language, comes first.
C17_Witness ==
    /\ pc = "done"
    /\ last.op = "negotiate"
    /\ last.strategy = "Matching"
    /\ last.requested = <<LocaleId("az", "", "IR")>>
    /\ last.available = <<LocaleId("az", "", ""), LocaleId("az", "Arab", "IR")>>
    /\ last.default = None
    /\ last.result = <<LocaleId("az", "Arab", "IR")>>

----------------------------------------------------------------------------
(* The builtin functions NUMBER and DATETIME registered by new_concurrent   *)
(* (concurrent.rs).  A FluentValue is its variant and the payload of it.    *)

\* Positional and named arguments of one call.
MaxPositional == 2
MaxNamed == 2

FluentValueNumber(num) ==
    [type |-> "Number", number |-> num, datetime |-> NoDateTime, str |-> ""]

FluentValueDateTime(dt) ==
    [type |-> "DateTime", number |-> NoNumber, datetime |-> dt, str |-> ""]

FluentValueString(str) ==
    [type |-> "String", number |-> NoNumber, datetime |-> NoDateTime, str |-> str]

FluentValueError ==
    [type |-> "Error", number |-> NoNumber, datetime |-> NoDateTime, str |-> ""]

FluentValueNone ==
    [type |-> "None", number |-> NoNumber, datetime |-> NoDateTime, str |-> ""]

\* Mutant of NumberFunction: the named arguments are not merged.
NumberFunctionUnmerged(args, named_args) ==
    IF Len(args) # 1 THEN FluentValueError
    ELSE LET arg == args[1]
         IN  IF arg.type = "Number" THEN FluentValueNumber(arg.number)
             ELSE FluentValueError

\* The closure registered as NUMBER.
NumberFunction(args, named_args) ==
    IF Len(args) # 1 THEN FluentValueError
    ELSE LET arg == args[1]
         IN  IF arg.type = "Number"
             THEN FluentValueNumber(
                      FluentNumber(arg.number.value,
                                   NumberOptionsMerge(arg.number.options, named_args)))
             ELSE FluentValueError

\* The closure registered as DATETIME.
DateTimeFunction(args, named_args) ==
    IF Len(args) # 1 THEN FluentValueError
    ELSE LET arg == args[1]
         IN  IF arg.type = "DateTime"
             THEN FluentValueDateTime(
                      FluentDateTime(arg.datetime.value,
                                     DateTimeOptionsMerge(arg.datetime.options, named_args)))
             ELSE FluentValueError

\* Values passed in positional places.
PositionalValues ==
    {FluentValueNumber(FluentNumber(F64(FALSE, 15, -1), DefaultNumberOptions)),
     FluentValueNumber(FluentNumber(F64(TRUE, 2, 0), CustomNumberOptions)),
     FluentValueDateTime(FluentDateTime("instantA", DefaultDateTimeOptions)),
     FluentValueDateTime(FluentDateTime("instantB", CustomDateTimeOptions)),
     FluentValueString("x"), FluentValueError, FluentValueNone}

\* Entries passed as named arguments.
NamedEntries ==
    {StringArg("notation", "scientific"), NumberArg("minimumFractionDigits", F64(FALSE, 2, 0)),
     StringArg("dateStyle", "full"), StringArg("timezoneStyle", "gmt"),
     StringArg("unknown", "bogus"), NumberArg("notation", F64(FALSE, 2, 0))}

\* A call of NUMBER: the closure reads the slice it is lent and returns
\* a value of its own.
CallNumberFunction ==
    /\ pc = "function"
    /\ last' = [last EXCEPT !.op = "NUMBER",
                            !.result = NumberFunction(last.args, last.named_args),
                            !.args_after = last.args]
    /\ pc' = "done"
    /\ UNCHANGED <<numFormatters, dtFormatters, plurals, built, panicked,
                   firstText, calls, entries, scope, chain>>

\* A call of DATETIME.
CallDateTimeFunction ==
    /\ pc = "function"
    /\ last' = [last EXCEPT !.op = "DATETIME",
                            !.result = DateTimeFunction(last.args, last.named_args),
                            !.args_after = last.args]
    /\ pc' = "done"
    /\ UNCHANGED <<numFormatters, dtFormatters, plurals, built, panicked,
                   firstText, calls, entries, scope, chain>>

InitBuiltins ==
    /\ InitCaches
    /\ InitBundle
    /\ pc = "function"
    /\ \E n \in 0..MaxPositional, k \in 0..MaxNamed :
          \E args \in [1..n -> PositionalValues], named_args \in [1..k -> NamedEntries] :
              last = [op |-> "none", args |-> args, named_args |-> named_args,
                      result |-> FluentValueNone, args_after |-> <<>>]

NextBuiltins == CallNumberFunction \/ CallDateTimeFunction

SpecBuiltins == InitBuiltins /\ [][NextBuiltins]_vars

----------------------------------------------------------------------------
(* C18: NUMBER returns Error unless it is given exactly one positional      *)
(* argument that is a Number; then it returns a Number of the same value   *)
(* whose options are the argument's options merged with the named          *)
(* arguments, and the caller's argument is as it was.  DATETIME does the   *)
(* same with a DateTime.                                                   *)

C18_Accepted(kind) == Len(last.args) = 1 /\ last.args[1].type = kind

HasEntry(e) == \E i \in 1..Len(last.named_args) : last.named_args[i] = e

C18_Builtins ==
    (pc = "done" /\ last.op \in {"NUMBER", "DATETIME"}) =>
        /\ last.args_after = last.args
        /\ last.op = "NUMBER" =>
              IF C18_Accepted("Number")
              THEN /\ last.result.type = "Number"
                   /\ last.result.number.value = last.args[1].number.value
                   /\ last.result.number.options =
                          NumberOptionsMerge(last.args[1].number.options, last.named_args)
                   /\ HasEntry(StringArg("notation", "scientific"))
                          => last.result.number.options.notation = "Scientific"
                   /\ last.named_args = <<>>
                          => last.result.number.options = last.args[1].number.options
              ELSE last.result = FluentValueError
        /\ last.op = "DATETIME" =>
              IF C18_Accepted("DateTime")
              THEN /\ last.result.type = "DateTime"
                   /\ last.result.datetime.value = last.args[1].datetime.value
                   /\ last.result.datetime.options =
                          DateTimeOptionsMerge(last.args[1].datetime.options, last.named_args)
                   /\ HasEntry(StringArg("dateStyle", "full"))
                          => last.result.datetime.options.date_style = "Full"
                   /\ last.named_args = <<>>
                          => last.result.datetime.options = last.args[1].datetime.options
              ELSE last.result = FluentValueError

\* A Number argument comes back with the named notation merged in, the
\* argument itself still with its own options.
C18_Witness ==
    /\ pc = "done"
    /\ last.op = "NUMBER"
    /\ C18_Accepted("Number")
    /\ HasEntry(StringArg("notation", "scientific"))
    /\ last.result.number.options.notation = "Scientific"
    /\ last.args[1].number.options.notation = "Standard"
    /\ last.args_after = last.args

----------------------------------------------------------------------------
(* C19: Scientific and Engineering notation.  For a nonzero finite value    *)
(* the exponent rendered is the largest multiple of 1 (Scientific) or 3    *)
(* (Engineering) that does not exceed the magnitude of the value's leading *)
(* nonzero digit, so that the mantissa before rounding lies in [1, 10)     *)
(* resp. [1, 1000), for values below 1 as for values above.                *)

\* The magnitude of the leading nonzero digit of a finite nonzero value.
LeadingMagnitude(v) == Len(NatDigits(v.mant)) - 1 + v.exp

\* The exponent a rendered text shows after its E.
RenderedExponent(text) ==
    LET ePos == CHOOSE i \in 1..Len(text) : text[i] = "E"
        abs  == DigitsNat(DigitsIn(SubSeq(text, ePos + 2, Len(text))))
    IN  IF text[ePos + 1] = "-" THEN 0 - abs ELSE abs

C19_LeadingDigitNonzero ==
    (NumberDone({"Scientific", "Engineering"}) /\ last.num.value.mant # 0) =>
        LET multiple == IF last.num.options.notation = "Engineering" THEN 3 ELSE 1
            leading  == LeadingMagnitude(last.num.value)
            exponent == RenderedExponent(last.text)
        IN  /\ last.outcome = "text"
            /\ exponent = ScientificParts(last.num, multiple).magnitude
            /\ exponent <= leading
            /\ leading < exponent + multiple

----------------------------------------------------------------------------
(* as_decimal with digit options of any usize (number.rs 346-368): the     *)
(* options reach as_decimal through merge from Number arguments and are    *)
(* cast with `as i16` there.                                               *)

\* Digit counts around the ends of the i16 and u16 ranges.
WideDigits == {0, 1, 2, 32767, 32768, 65535, 65536, 65537}

WideDigitOptions == {None} \cup {Some(k) : k \in WideDigits}

WideValues == {F64(FALSE, 15, -1), F64(TRUE, 15, -1), F64(FALSE, 25, -2), F64(FALSE, 2, 0)}

\* Whether as_decimal negates i16::MIN: -maximum_fraction_digits in the
\* rounding call or -(minimum_fraction_digits as i16) in padded_end.
NegatesI16Min(options) ==
    LET minimum_fraction_digits == UnwrapOr(options.minimum_fraction_digits, 0)
        maximum_fraction_digits ==
            AsI16(UnwrapOr(options.maximum_fraction_digits, Max(minimum_fraction_digits, 3)))
    IN  \/ maximum_fraction_digits = 0 - 32768
        \/ AsI16(minimum_fraction_digits) = 0 - 32768

\* A call of as_decimal.  The negation of i16::MIN panics in a build with
\* overflow checks and wraps in one without; either leaves no decimal
\* here.
AsDecimalCall ==
    /\ pc = "digits"
    /\ IF NegatesI16Min(last.num.options)
       THEN \E outcome \in {"panic", "wrapped"} :
               last' = [last EXCEPT !.op = "as_decimal", !.outcome = outcome]
       ELSE last' = [last EXCEPT !.op = "as_decimal", !.outcome = "decimal",
                                 !.decimal = AsDecimal(last.num).value]
    /\ pc' = "done"
    /\ UNCHANGED <<numFormatters, dtFormatters, plurals, built, panicked,
                   firstText, calls, entries, scope, chain>>

InitDigits ==
    /\ InitCaches
    /\ InitBundle
    /\ pc = "digits"
    /\ \E v \in WideValues, ro \in {None, Some("expand")},
          mi \in WideDigitOptions, mf \in WideDigitOptions, xf \in WideDigitOptions :
          last = [op |-> "none",
                  num |-> NumberWith(v, NumberArgs(None, None, ro, mi, mf, xf)),
                  outcome |-> "none", decimal |-> FixedDecimalZero]

NextDigits == AsDecimalCall

SpecDigits == InitDigits /\ [][NextDigits]_vars

----------------------------------------------------------------------------
(* C20: every digit option value n that can be stored is applied as the    *)
(* digit count n: its cast to the i16 position neither wraps nor           *)
(* overflows, a maximum-fraction-digits of at least the value's own        *)
(* fraction digits leaves the numeric value as it is, and the negation of  *)
(* the minimum-fraction-digits position does not overflow.                 *)

\* The digit counts stored in the options.
StoredDigits(options) ==
    {o[1] : o \in {options.minimum_integer_digits, options.minimum_fraction_digits,
                   options.maximum_fraction_digits} \ {None}}

\* The fraction digits of a finite value.
FractionDigits(v) == IF v.exp < 0 THEN 0 - v.exp ELSE 0

C20_DigitCountApplied ==
    (pc = "done" /\ last.op = "as_decimal") =>
        LET o      == last.num.options
            parsed == FixedDecimalFromStr(F64ToString(last.num.value)).value
        IN  /\ \A n \in StoredDigits(o) : AsI16(n) = n
            /\ last.outcome = "decimal"
            /\ (o.maximum_fraction_digits # None
                  /\ o.maximum_fraction_digits[1] >= FractionDigits(last.num.value))
                  => /\ last.decimal.negative = parsed.negative
                     /\ last.decimal.digits = parsed.digits
                     /\ last.decimal.magnitude = parsed.magnitude

----------------------------------------------------------------------------
(* maximize called on a locale of any subtags (likely_subtags.rs 11-39).   *)

MaximizeLanguages == {"en", "fr", "sr", "az", "zh", "de", "pl", "ru", "ja"}

MaximizeScripts == {"", "Latn", "Arab", "Cyrl", "Hant"}

MaximizeRegions == {"", "US", "IR", "RU", "GB", "AT", "DE", "SR"}

\* locale.maximize(): the locale is changed in place and the flag returned.
MaximizeCall ==
    /\ pc = "maximize"
    /\ last' = [last EXCEPT !.op = "maximize",
                            !.after = Maximize(last.locale).locale,
                            !.found = Maximize(last.locale).found]
    /\ pc' = "done"
    /\ UNCHANGED <<numFormatters, dtFormatters, plurals, built, panicked,
                   firstText, calls, entries, scope, chain>>

InitMaximize ==
    /\ InitCaches
    /\ InitBundle
    /\ pc = "maximize"
    /\ \E language \in MaximizeLanguages, script \in MaximizeScripts,
          region \in MaximizeRegions :
          last = [op |-> "none", locale |-> LocaleId(language, script, region),
                  after |-> LocaleId(language, script, region), found |-> FALSE]

NextMaximize == MaximizeCall

SpecMaximize == InitMaximize /\ [][NextMaximize]_vars

----------------------------------------------------------------------------
(* C21: maximize only fills in missing subtags.  It leaves the language    *)
(* as it is and never replaces a script or a region the locale already     *)
(* carries, and it returns true exactly when it has likely-subtag data     *)
(* for the locale.                                                         *)

\* The locales the table of maximize has a row for.
LikelyRows ==
    {<<"en">>, <<"fr">>, <<"sr">>, <<"sr", "RU">>, <<"az", "IR">>,
     <<"zh", "GB">>, <<"zh", "US">>}

C21_OnlyFillsMissing ==
    (pc = "done" /\ last.op = "maximize") =>
        /\ last.after.language = last.locale.language
        /\ last.locale.script # "" => last.after.script = last.locale.script
        /\ last.locale.region # "" => last.after.region = last.locale.region
        /\ last.found <=> (\/ LocaleToString(last.locale) \in LikelyRows
                           \/ last.locale.language \in REGION_MATCHING_KEYS)

====
